---- MODULE Spec2Model ----
(***************************************************************************)
(* A model of the tmj map editor: the map-merge engine of                  *)
(* src/utils/tmjMerge.ts, the colour engine of src/utils/colorTools.ts and *)
(* the handlers of the App component that drive them.                      *)
(*                                                                         *)
(* The exported functions are operators that compute what the code         *)
(* computes; every specification draws a function's inputs in its Init and *)
(* applies the function in one action.                                     *)
(***************************************************************************)
EXTENDS Integers, Sequences, FiniteSets, TLC

VARIABLES
    chunks,     \* the MapChunk[] argument of the merge functions
    called,     \* the function that has been applied to chunks, or "none"
    calls,      \* the functions the applied function called, in call order
    ret,        \* what the applied function returned or threw
    mapChunks,  \* App state: the loaded chunks
    tilesets,   \* App state: the loaded tileset states
    output,     \* what the last export handler showed or downloaded
    heap,           \* the pixel buffers: heap[id] is the bytes of buffer id
    baseImageData,  \* the ImageData argument of the colour functions
    changes,        \* the PaletteChange[] argument
    useTolerance,   \* the useTolerance argument
    toleranceSq,    \* the toleranceSq argument
    maxColors,      \* the maxColors argument of extractDominantColors
    sampleStep,     \* the sampleStep argument of extractDominantColors
    scan,           \* a call of extractDominantColors that runs in steps
    uploads         \* App: the calls of handleZipUpload that have not ended

callVars == <<chunks, called, calls, ret>>
appVars == <<mapChunks, tilesets, output, uploads>>
colorArgVars == <<baseImageData, changes, useTolerance, toleranceSq,
                  maxColors, sampleStep, scan>>
colorVars == <<heap, baseImageData, changes, useTolerance, toleranceSq,
               maxColors, sampleStep, scan>>
vars == <<chunks, called, calls, ret, mapChunks, tilesets, output,
          heap, baseImageData, changes, useTolerance, toleranceSq,
          maxColors, sampleStep, scan, uploads>>

(***************************************************************************)
(* JavaScript values.                                                      *)
(***************************************************************************)
\* An optional property: absent (undefined) or present with a value.
Absent == {}
Some(v) == {v}
Has(o) == o # {}
Get(o) == CHOOSE v \in o : TRUE

\* A number that may be +Infinity or -Infinity.
Fin(n) == <<"fin", n>>
PosInf == <<"inf", 1>>
NegInf == <<"inf", -1>>
NaN == <<"nan", 0>>
IsFin(e) == e[1] = "fin"
Num(e) == e[2]

\* Math.min, Math.max and the subtraction of two such numbers.
MathMin(a, b) ==
    IF a = NaN \/ b = NaN THEN NaN
    ELSE IF a = NegInf \/ b = NegInf THEN NegInf
    ELSE IF a = PosInf THEN b
    ELSE IF b = PosInf THEN a
    ELSE IF Num(a) <= Num(b) THEN a ELSE b

MathMax(a, b) ==
    IF a = NaN \/ b = NaN THEN NaN
    ELSE IF a = PosInf \/ b = PosInf THEN PosInf
    ELSE IF a = NegInf THEN b
    ELSE IF b = NegInf THEN a
    ELSE IF Num(a) >= Num(b) THEN a ELSE b

Minus(a, b) ==
    IF a = NaN \/ b = NaN THEN NaN
    ELSE IF IsFin(a) /\ IsFin(b) THEN Fin(Num(a) - Num(b))
    ELSE IF IsFin(a) THEN (IF b = PosInf THEN NegInf ELSE PosInf)
    ELSE IF IsFin(b) THEN a
    ELSE IF a = b THEN NaN
    ELSE a

\* What a call produced: a returned value or a thrown Error.
Returned(v) == [kind |-> "returned", value |-> v]
Thrown(msg) == [kind |-> "thrown", name |-> "Error", message |-> msg]

(***************************************************************************)
(* computeBounds (tmjMerge.ts).                                            *)
(***************************************************************************)
\* One iteration of the loop over the chunks.
BoundsStepMutNoExtent(acc, chunk) ==
    [minX |-> MathMin(acc.minX, Fin(chunk.offsetX)),
     minY |-> MathMin(acc.minY, Fin(chunk.offsetY)),
     maxX |-> MathMax(acc.maxX, Fin(chunk.offsetX)),
     maxY |-> MathMax(acc.maxY, Fin(chunk.offsetY + chunk.tmj.height))]

BoundsStep(acc, chunk) ==
    LET w == chunk.tmj.width
        h == chunk.tmj.height
        x0 == chunk.offsetX
        y0 == chunk.offsetY
        x1 == x0 + w
        y1 == y0 + h
    IN  [minX |-> MathMin(acc.minX, Fin(x0)),
         minY |-> MathMin(acc.minY, Fin(y0)),
         maxX |-> MathMax(acc.maxX, Fin(x1)),
         maxY |-> MathMax(acc.maxY, Fin(y1))]

RECURSIVE BoundsLoop(_, _, _)
BoundsLoop(cs, i, acc) ==
    IF i > Len(cs) THEN acc
    ELSE BoundsLoop(cs, i + 1, BoundsStep(acc, cs[i]))

computeBounds(cs) ==
    LET b == BoundsLoop(cs, 1,
                 [minX |-> PosInf, minY |-> PosInf,
                  maxX |-> NegInf, maxY |-> NegInf])
    IN  [minX |-> b.minX, minY |-> b.minY, maxX |-> b.maxX, maxY |-> b.maxY,
         width |-> Minus(b.maxX, b.minX),
         height |-> Minus(b.maxY, b.minY)]

(***************************************************************************)
(* mergeTilesets (tmjMerge.ts).                                            *)
(***************************************************************************)
\* `s || null` as JSON.stringify writes it: null for an absent or empty string.
OrNull(o) ==
    IF o = Absent \/ o = Some("") THEN <<"null">> ELSE <<"string", Get(o)>>

\* A numeric property as JSON.stringify writes it: an undefined one is omitted.
JsonNumber(o) ==
    IF o = Absent THEN <<"omitted">> ELSE <<"number", Get(o)>>

\* The deduplication key: the members of the serialised object, in order.
TilesetKeyMutNoColumns(ts) ==
    <<OrNull(ts.source), OrNull(ts.name), OrNull(ts.image),
      JsonNumber(ts.tilewidth), JsonNumber(ts.tileheight),
      JsonNumber(ts.tilecount)>>

TilesetKey(ts) ==
    <<OrNull(ts.source), OrNull(ts.name), OrNull(ts.image),
      JsonNumber(ts.tilewidth), JsonNumber(ts.tileheight),
      JsonNumber(ts.tilecount), JsonNumber(ts.columns)>>

\* `ts.tilecount ?? 0`.
TileCountOrZero(ts) == IF Has(ts.tilecount) THEN Get(ts.tilecount) ELSE 0

\* tilesetKeyToGlobalIndex.get(key): the 0-based index, or Absent.
MapGet(m, key) ==
    IF \E e \in m : e.key = key
    THEN Some((CHOOSE e \in m : e.key = key).index)
    ELSE Absent

\* The remap after the loop `for (local = 0; local < tileCount; local++)`.
RemapRange(remap, oldFirstGid, newFirstGid, tileCount) ==
    LET olds == {oldFirstGid + local : local \in 0..(tileCount - 1)}
    IN  [g \in (DOMAIN remap) \cup olds |->
            IF g \in olds THEN newFirstGid + (g - oldFirstGid) ELSE remap[g]]

\* The object a global tileset is: `{...ts, firstgid}` makes a new object,
\* which is the tileset of no chunk (Absent), not tileset j of chunk mapIndex.
NewTilesetOriginMutAlias(mapIndex, j) == Some(<<mapIndex, j>>)

NewTilesetOrigin(mapIndex, j) == Absent

\* The body of the loop over one chunk's tilesets, for tileset ts, the j-th
\* of the chunk at mapIndex (both 1-based here).
RegisterTileset(st, mapIndex, j, ts) ==
    LET key == TilesetKey(ts)
        found == MapGet(st.tilesetKeyToGlobalIndex, key)
        isNew == found = Absent
        globalIndex == IF isNew THEN Len(st.globalTilesets) ELSE Get(found)
        newTs == [ts EXCEPT !.firstgid = st.nextFirstGid]
        globalTilesets ==
            IF isNew THEN Append(st.globalTilesets, newTs)
            ELSE st.globalTilesets
        globalTs == globalTilesets[globalIndex + 1]
    IN  [globalTilesets |-> globalTilesets,
         globalOrigins |->
            IF isNew
            THEN Append(st.globalOrigins, NewTilesetOrigin(mapIndex, j))
            ELSE st.globalOrigins,
         tilesetKeyToGlobalIndex |->
            IF isNew
            THEN st.tilesetKeyToGlobalIndex
                    \cup {[key |-> key, index |-> globalIndex]}
            ELSE st.tilesetKeyToGlobalIndex,
         nextFirstGid |->
            IF isNew THEN st.nextFirstGid + TileCountOrZero(ts)
            ELSE st.nextFirstGid,
         gidRemaps |->
            [st.gidRemaps EXCEPT ![mapIndex] =
                RemapRange(@, ts.firstgid, globalTs.firstgid,
                           TileCountOrZero(ts))]]

RECURSIVE TilesetsLoop(_, _, _, _)
TilesetsLoop(cs, i, j, st) ==
    IF i > Len(cs) THEN st
    ELSE IF j > Len(cs[i].tmj.tilesets) THEN TilesetsLoop(cs, i + 1, 1, st)
    ELSE TilesetsLoop(cs, i, j + 1,
                      RegisterTileset(st, i, j, cs[i].tmj.tilesets[j]))

\* The state of mergeTilesets when its loops are done.
TilesetsLoopEnd(cs) ==
    TilesetsLoop(cs, 1, 1,
                 [globalTilesets |-> <<>>,
                  globalOrigins |-> <<>>,
                  gidRemaps |-> [i \in 1..Len(cs) |-> [g \in {} |-> 0]],
                  tilesetKeyToGlobalIndex |-> {},
                  nextFirstGid |-> 1])

mergeTilesets(cs) ==
    LET st == TilesetsLoopEnd(cs)
    IN  [globalTilesets |-> st.globalTilesets, gidRemaps |-> st.gidRemaps]

\* For each global tileset, the chunk tileset it is the same object as, if
\* any: a write to the global tileset is a write to that tileset too.
globalTilesetOrigins(cs) == TilesetsLoopEnd(cs).globalOrigins

\* findTilesetForGid (mapRender.ts): the tileset with the highest firstgid
\* that is <= gid, the first listed among equals; Absent when there is none.
RECURSIVE FindTilesetLoop(_, _, _, _)
FindTilesetLoop(gid, refs, i, chosen) ==
    IF i > Len(refs) THEN chosen
    ELSE LET ts == refs[i]
         IN  FindTilesetLoop(gid, refs, i + 1,
                IF gid >= ts.firstgid
                   /\ (chosen = Absent \/ ts.firstgid > refs[Get(chosen)].firstgid)
                THEN Some(i) ELSE chosen)

\* The 1-based position of the chosen tileset in the list, or Absent.
findTilesetForGid(gid, refs) == FindTilesetLoop(gid, refs, 1, Absent)

(***************************************************************************)
(* mergeTileLayers (tmjMerge.ts).                                          *)
(***************************************************************************)
\* A JavaScript array of numbers: a function from the indices that hold an
\* element (0-based). Reading a missing element gives undefined.
NewArrayFill0(n) == [i \in 0..(n - 1) |-> 0]

\* `arr[i] || 0`.
ElementOrZero(arr, i) == IF i \in DOMAIN arr THEN arr[i] ELSE 0

\* `arr[i] = v`: an index past the end extends the array; a negative index
\* sets a property that is no element.
ArraySet(arr, i, v) ==
    IF i < 0 THEN arr
    ELSE [j \in (DOMAIN arr) \cup {i} |-> IF j = i THEN v ELSE arr[j]]

\* `remap[gid] ?? gid`.
RemapOrSelfMutZero(remap, gid) == IF gid \in DOMAIN remap THEN remap[gid] ELSE 0

RemapOrSelf(remap, gid) == IF gid \in DOMAIN remap THEN remap[gid] ELSE gid

\* The test that drops a destination cell outside the merged grid.
OutOfBoundsMutNoRightEdge(globalX, globalY, width, height) ==
    globalX < 0 \/ globalY < 0 \/ globalY >= height

OutOfBounds(globalX, globalY, width, height) ==
    globalX < 0 \/ globalY < 0 \/ globalX >= width \/ globalY >= height

\* The body of the two loops over localY and localX, for one source cell.
CopyCell(destData, src, remap, offsetX, offsetY, bounds, localX, localY) ==
    LET srcIndex == localY * src.width + localX
        oldGid == ElementOrZero(src.data, srcIndex)
        newGid == RemapOrSelf(remap, oldGid)
        globalX == offsetX + localX
        globalY == offsetY + localY
        destIndex == globalY * Num(bounds.width) + globalX
    IN  IF oldGid = 0 THEN destData
        ELSE IF OutOfBounds(globalX, globalY,
                            Num(bounds.width), Num(bounds.height))
        THEN destData
        ELSE ArraySet(destData, destIndex, newGid)

RECURSIVE CopyCells(_, _, _, _, _, _, _, _)
CopyCells(destData, src, remap, offsetX, offsetY, bounds, localX, localY) ==
    IF localY >= src.height THEN destData
    ELSE IF localX >= src.width
    THEN CopyCells(destData, src, remap, offsetX, offsetY, bounds,
                   0, localY + 1)
    ELSE CopyCells(
            CopyCell(destData, src, remap, offsetX, offsetY, bounds,
                     localX, localY),
            src, remap, offsetX, offsetY, bounds, localX + 1, localY)

\* The merged layer made of tile layer src of the chunk at offset
\* (offsetX, offsetY) relative to the bounds.
MergeTileLayer(src, id, remap, offsetX, offsetY, bounds) ==
    [src EXCEPT
        !.id = id, !.x = 0, !.y = 0,
        !.width = Num(bounds.width), !.height = Num(bounds.height),
        !.data = CopyCells(
                    NewArrayFill0(Num(bounds.width) * Num(bounds.height)),
                    src, remap, offsetX, offsetY, bounds, 0, 0)]

RECURSIVE TileLayersLoop(_, _, _, _, _, _)
TileLayersLoop(cs, bounds, gidRemaps, idx, k, st) ==
    IF idx > Len(cs) THEN st
    ELSE IF k > Len(cs[idx].tmj.layers)
    THEN TileLayersLoop(cs, bounds, gidRemaps, idx + 1, 1, st)
    ELSE LET layer == cs[idx].tmj.layers[k]
             offsetX == cs[idx].offsetX - Num(bounds.minX)
             offsetY == cs[idx].offsetY - Num(bounds.minY)
         IN  IF layer.type # "tilelayer"
             THEN TileLayersLoop(cs, bounds, gidRemaps, idx, k + 1, st)
             ELSE TileLayersLoop(cs, bounds, gidRemaps, idx, k + 1,
                    [mergedLayers |->
                        Append(st.mergedLayers,
                               MergeTileLayer(layer, st.nextLayerId,
                                              gidRemaps[idx],
                                              offsetX, offsetY, bounds)),
                     nextLayerId |-> st.nextLayerId + 1])

mergeTileLayers(cs, bounds, gidRemaps) ==
    TileLayersLoop(cs, bounds, gidRemaps, 1, 1,
                   [mergedLayers |-> <<>>, nextLayerId |-> 1]).mergedLayers

(***************************************************************************)
(* mergeObjectGroups (tmjMerge.ts).                                        *)
(***************************************************************************)
\* The copy of one object: a fresh id, the pixel shift, the remapped gid.
MergeObjectMutShiftBothByX(obj, id, remap, offsetPixelsX, offsetPixelsY) ==
    [obj EXCEPT
        !.id = id,
        !.x = obj.x + offsetPixelsX,
        !.y = obj.y + offsetPixelsX,
        !.gid = IF Has(obj.gid)
                THEN Some(RemapOrSelf(remap, Get(obj.gid)))
                ELSE obj.gid]

MergeObject(obj, id, remap, offsetPixelsX, offsetPixelsY) ==
    [obj EXCEPT
        !.id = id,
        !.x = obj.x + offsetPixelsX,
        !.y = obj.y + offsetPixelsY,
        !.gid = IF Has(obj.gid)
                THEN Some(RemapOrSelf(remap, Get(obj.gid)))
                ELSE obj.gid]

MergeObjectGroup(src, id, nextObjectId, remap, offsetPixelsX, offsetPixelsY) ==
    [src EXCEPT
        !.id = id,
        !.objects = [n \in 1..Len(src.objects) |->
                        MergeObject(src.objects[n], nextObjectId + n - 1,
                                    remap, offsetPixelsX, offsetPixelsY)]]

RECURSIVE ObjectGroupsLoop(_, _, _, _, _, _, _, _)
ObjectGroupsLoop(cs, bounds, gidRemaps, tilewidth, tileheight, idx, k, st) ==
    IF idx > Len(cs) THEN st
    ELSE IF k > Len(cs[idx].tmj.layers)
    THEN ObjectGroupsLoop(cs, bounds, gidRemaps, tilewidth, tileheight,
                          idx + 1, 1, st)
    ELSE LET layer == cs[idx].tmj.layers[k]
             offsetTilesX == cs[idx].offsetX - Num(bounds.minX)
             offsetTilesY == cs[idx].offsetY - Num(bounds.minY)
         IN  IF layer.type # "objectgroup"
             THEN ObjectGroupsLoop(cs, bounds, gidRemaps, tilewidth,
                                   tileheight, idx, k + 1, st)
             ELSE ObjectGroupsLoop(cs, bounds, gidRemaps, tilewidth,
                                   tileheight, idx, k + 1,
                    [mergedGroups |->
                        Append(st.mergedGroups,
                               MergeObjectGroup(layer, st.nextGroupId,
                                    st.nextObjectId, gidRemaps[idx],
                                    offsetTilesX * tilewidth,
                                    offsetTilesY * tileheight)),
                     nextGroupId |-> st.nextGroupId + 1,
                     nextObjectId |-> st.nextObjectId + Len(layer.objects)])

mergeObjectGroups(cs, bounds, gidRemaps, tilewidth, tileheight) ==
    ObjectGroupsLoop(cs, bounds, gidRemaps, tilewidth, tileheight, 1, 1,
                     [mergedGroups |-> <<>>, nextGroupId |-> 1,
                      nextObjectId |-> 1]).mergedGroups

(***************************************************************************)
(* mergeTmjMaps (tmjMerge.ts).                                             *)
(***************************************************************************)
NoMapsMessage == "No maps to merge"
MismatchMessage == "All maps must use same tilewidth/tileheight"
InfiniteMessage == "Infinite maps are not supported in this merger"

\* The truthiness of the optional `infinite` flag.
Truthy(o) == o = Some(TRUE)

\* The two checks made of one chunk in the validation loop: the message of
\* the Error it throws, or Absent.
CheckChunkMutInfiniteFirst(c, tilewidth, tileheight) ==
    IF Truthy(c.tmj.infinite) THEN Some(InfiniteMessage)
    ELSE IF c.tmj.tilewidth # tilewidth \/ c.tmj.tileheight # tileheight
    THEN Some(MismatchMessage)
    ELSE Absent

CheckChunkMutWidthOnly(c, tilewidth, tileheight) ==
    IF c.tmj.tilewidth # tilewidth THEN Some(MismatchMessage)
    ELSE IF Truthy(c.tmj.infinite) THEN Some(InfiniteMessage)
    ELSE Absent

CheckChunk(c, tilewidth, tileheight) ==
    IF c.tmj.tilewidth # tilewidth \/ c.tmj.tileheight # tileheight
    THEN Some(MismatchMessage)
    ELSE IF Truthy(c.tmj.infinite) THEN Some(InfiniteMessage)
    ELSE Absent

RECURSIVE ValidateLoop(_, _, _, _)
ValidateLoop(cs, i, tilewidth, tileheight) ==
    IF i > Len(cs) THEN Absent
    ELSE LET e == CheckChunk(cs[i], tilewidth, tileheight)
         IN  IF Has(e) THEN e
             ELSE ValidateLoop(cs, i + 1, tilewidth, tileheight)

\* `[...tileLayers, ...objectGroups]`.
SpreadLayersMutGroupsFirst(tileLayers, objectGroups) ==
    objectGroups \o tileLayers

SpreadLayers(tileLayers, objectGroups) == tileLayers \o objectGroups

\* The outcome of mergeTmjMaps and the functions it called on the way.
mergeTmjMaps(cs) ==
    IF Len(cs) = 0
    THEN [result |-> Thrown(NoMapsMessage), calls |-> <<>>]
    ELSE LET tilewidth == cs[1].tmj.tilewidth
             tileheight == cs[1].tmj.tileheight
             e == ValidateLoop(cs, 1, tilewidth, tileheight)
         IN  IF Has(e)
             THEN [result |-> Thrown(Get(e)), calls |-> <<>>]
             ELSE LET bounds == computeBounds(cs)
                      ts == mergeTilesets(cs)
                      tileLayers ==
                          mergeTileLayers(cs, bounds, ts.gidRemaps)
                      objectGroups ==
                          mergeObjectGroups(cs, bounds, ts.gidRemaps,
                                            tilewidth, tileheight)
                      template == cs[1].tmj
                  IN  [result |-> Returned(
                          [template EXCEPT
                              !.width = Num(bounds.width),
                              !.height = Num(bounds.height),
                              !.layers =
                                  SpreadLayers(tileLayers, objectGroups),
                              !.tilesets = ts.globalTilesets]),
                       calls |-> <<"computeBounds", "mergeTilesets",
                                   "mergeTileLayers", "mergeObjectGroups">>]

(***************************************************************************)
(* applyColorMappingsToImageData (colorTools.ts).                          *)
(***************************************************************************)
DefaultToleranceSq == 400

Color(r, g, b, a) == [r |-> r, g |-> g, b |-> b, a |-> a]

\* colorToKey: the four channels in decimal, joined by commas.
colorToKeyMutNoAlpha(c) == <<c.r, c.g, c.b>>

colorToKey(c) == <<c.r, c.g, c.b, c.a>>

colorDistanceSq(c1, c2) ==
    LET dr == c1.r - c2.r
        dg == c1.g - c2.g
        db == c1.b - c2.b
        da == c1.a - c2.a
    IN  dr * dr + dg * dg + db * db + da * da

\* A store into a Uint8ClampedArray clamps the value to 0..255.
ClampByte(v) == IF v < 0 THEN 0 ELSE IF v > 255 THEN 255 ELSE v

\* `new Uint8ClampedArray(source)`: a new buffer holding a copy of the bytes
\* of buffer source.
NewUint8ClampedArrayMutShared(h, source) == [heap |-> h, id |-> source]

NewUint8ClampedArray(h, source) ==
    [heap |-> Append(h, h[source]), id |-> Len(h) + 1]

\* `fromKeys.indexOf(key)`: the first 0-based index of key, or -1.
IndexOf(keys, key) ==
    IF \E j \in 1..Len(keys) : keys[j] = key
    THEN (CHOOSE j \in 1..Len(keys) :
            keys[j] = key /\ \A q \in 1..(j - 1) : keys[q] # key) - 1
    ELSE -1

\* `dist < bestDist`, where bestDist starts as Infinity.
IsNearerMutOrAsNear(dist, best) ==
    best.bestDist = PosInf \/ dist <= Num(best.bestDist)

IsNearer(dist, best) == best.bestDist = PosInf \/ dist < Num(best.bestDist)

\* The loop over the changes in tolerance mode: the index of the nearest
\* `from` colour and its distance.
RECURSIVE NearestLoop(_, _, _, _)
NearestLoop(pixelColor, cs, j, best) ==
    IF j >= Len(cs) THEN best
    ELSE LET dist == colorDistanceSq(pixelColor, cs[j + 1].from)
         IN  NearestLoop(pixelColor, cs, j + 1,
                IF IsNearer(dist, best)
                THEN [bestIdx |-> j, bestDist |-> Fin(dist)]
                ELSE best)

\* Whether a pixel of this alpha is left alone.
IsSkippedMutNever(a) == FALSE

IsSkipped(a) == a = 0

\* The replacement of a pixel, or Absent (null).
Replacement(pixelColor, cs, tolerant, tolSq) ==
    IF tolerant
    THEN LET best == NearestLoop(pixelColor, cs, 0,
                        [bestIdx |-> -1, bestDist |-> PosInf])
         IN  IF best.bestIdx >= 0 /\ Num(best.bestDist) <= tolSq
             THEN Some(cs[best.bestIdx + 1].to)
             ELSE Absent
    ELSE LET fromKeys == [j \in 1..Len(cs) |-> colorToKey(cs[j].from)]
             idx == IndexOf(fromKeys, colorToKey(pixelColor))
         IN  IF idx # -1 THEN Some(cs[idx + 1].to) ELSE Absent

\* The loop over the pixels of the bytes `data`, four bytes at a time.
RECURSIVE PixelsLoop(_, _, _, _, _)
PixelsLoop(data, i, cs, tolerant, tolSq) ==
    IF i >= Len(data) THEN data
    ELSE LET pixelColor ==
                 Color(data[i + 1], data[i + 2], data[i + 3], data[i + 4])
             replacement == Replacement(pixelColor, cs, tolerant, tolSq)
         IN  IF IsSkipped(pixelColor.a) \/ replacement = Absent
             THEN PixelsLoop(data, i + 4, cs, tolerant, tolSq)
             ELSE PixelsLoop(
                    [data EXCEPT
                        ![i + 1] = ClampByte(Get(replacement).r),
                        ![i + 2] = ClampByte(Get(replacement).g),
                        ![i + 3] = ClampByte(Get(replacement).b),
                        ![i + 4] = ClampByte(Get(replacement).a)],
                    i + 4, cs, tolerant, tolSq)

\* The heap after the call and the ImageData it returns.
applyColorMappingsToImageData(h, image, cs, tolerant, tolSq) ==
    LET copy == NewUint8ClampedArray(h, image.data)
        out == [data |-> copy.id, width |-> image.width,
                height |-> image.height]
    IN  [heap |-> [copy.heap EXCEPT
                    ![out.data] = PixelsLoop(@, 0, cs, tolerant, tolSq)],
         image |-> out]

\* The colours of the model.
Red == Color(200, 0, 0, 255)
FaintRed == Color(200, 0, 0, 250)
ClearRed == Color(200, 0, 0, 0)
Blue == Color(0, 0, 200, 255)
Green == Color(0, 200, 0, 255)

\* The bytes of a row-major sequence of pixels.
BytesOf(pixels) ==
    [n \in 1..(4 * Len(pixels)) |->
        LET c == pixels[((n - 1) \div 4) + 1]
        IN  CASE (n - 1) % 4 = 0 -> c.r
              [] (n - 1) % 4 = 1 -> c.g
              [] (n - 1) % 4 = 2 -> c.b
              [] OTHER -> c.a]

\* The pixel at 0-based position n of a buffer.
PixelAt(data, n) ==
    Color(data[4 * n + 1], data[4 * n + 2], data[4 * n + 3], data[4 * n + 4])

PixelCount(data) == Len(data) \div 4

(***************************************************************************)
(* extractDominantColors (colorTools.ts).                                  *)
(***************************************************************************)
DefaultMaxColors == 16
DefaultSampleStep == 4

\* `(v >> 4) & 0x0f` of a byte.
HighNibble(v) == (v \div 16) % 16

\* quantizeColor: the four high nibbles in decimal, joined by commas.
quantizeColor(r, g, b, a) ==
    <<HighNibble(r), HighNibble(g), HighNibble(b), HighNibble(a)>>

\* `(v << 4) | (v & 0x0f)` of a nibble: the two terms share no bit.
expand(v) == (v * 16) + (v % 16)

dequantizeColor(key) ==
    Color(expand(key[1]), expand(key[2]), expand(key[3]), expand(key[4]))

\* A number is a double: a sum that leaves the range where every integer is
\* a double (up to 2^53 in the code, up to MaxSafe here) rounds back to the
\* number a small one was added to.
MaxSafe == 8

AddNumber(a, b) ==
    IF a + b > MaxSafe \/ a + b < - MaxSafe THEN a ELSE a + b

\* `counts[key] = (counts[key] || 0) + 1` on the entries of counts, kept in
\* the order Object.entries gives them: the order the keys were added in.
CountKey(counts, key) ==
    IF \E j \in 1..Len(counts) : counts[j].key = key
    THEN [j \in 1..Len(counts) |->
            IF counts[j].key = key
            THEN [counts[j] EXCEPT !.count = AddNumber(@, 1)]
            ELSE counts[j]]
    ELSE Append(counts, [key |-> key, count |-> 1])

\* The two loops of the scan, from pixel (x, y) on.
RECURSIVE ScanLoop(_, _, _, _, _, _, _)
ScanLoop(data, width, height, step, y, x, counts) ==
    IF y >= height THEN counts
    ELSE IF x >= width
    THEN ScanLoop(data, width, height, step, y + step, 0, counts)
    ELSE LET idx == (y * width + x) * 4
             r == data[idx + 1]
             g == data[idx + 2]
             b == data[idx + 3]
             a == data[idx + 4]
         IN  ScanLoop(data, width, height, step, y, x + step,
                      IF a = 0 THEN counts
                      ELSE CountKey(counts, quantizeColor(r, g, b, a)))

\* `data[idx]` of a Uint8ClampedArray: undefined outside the array.
ByteAt(data, idx) ==
    IF idx + 1 \in DOMAIN data THEN Some(data[idx + 1]) ELSE Absent

\* The operand of `>>`: undefined is converted to 0.
ToInt32(o) == IF Has(o) THEN Get(o) ELSE 0

\* The body of the inner loop for the pixel at idx.
ScanSample(data, idx, counts) ==
    LET r == ByteAt(data, idx)
        g == ByteAt(data, idx + 1)
        b == ByteAt(data, idx + 2)
        a == ByteAt(data, idx + 3)
    IN  IF a = Some(0) THEN counts
        ELSE CountKey(counts, quantizeColor(ToInt32(r), ToInt32(g),
                                            ToInt32(b), ToInt32(a)))

\* The call in steps: st is the position <<y, x>> of the two loops, the
\* counts so far and the Color[] once it is returned. No call runs in
\* ScanIdle.
ScanIdle ==
    [pc |-> "idle", y |-> 0, x |-> 0, counts |-> <<>>, result |-> Absent]

ScanStart == [ScanIdle EXCEPT !.pc = "scan"]

\* One test of the loops and what follows it: the end of the outer loop,
\* the end of a row (`y += sampleStep`), or a sample and `x += sampleStep`.
ScanIteration(data, width, height, step, st) ==
    IF st.y >= height THEN [st EXCEPT !.pc = "sort"]
    ELSE IF st.x >= width
    THEN [st EXCEPT !.y = AddNumber(@, step), !.x = 0]
    ELSE [st EXCEPT !.x = AddNumber(@, step),
                    !.counts = ScanSample(data, (st.y * width + st.x) * 4,
                                          @)]

\* `sort((a, b) => b[1] - a[1])`, a stable sort: entry e, which comes after
\* the entries of sorted, goes behind every entry it is not to precede.
SortInsertMutBeforeTies(sorted, e) ==
    LET k == Cardinality({j \in 1..Len(sorted) : sorted[j].count > e.count})
    IN  SubSeq(sorted, 1, k) \o <<e>> \o SubSeq(sorted, k + 1, Len(sorted))

SortInsert(sorted, e) ==
    LET k == Cardinality({j \in 1..Len(sorted) : sorted[j].count >= e.count})
    IN  SubSeq(sorted, 1, k) \o <<e>> \o SubSeq(sorted, k + 1, Len(sorted))

RECURSIVE SortLoop(_, _, _)
SortLoop(entries, i, sorted) ==
    IF i >= Len(entries) THEN sorted
    ELSE SortLoop(entries, i + 1, SortInsert(sorted, entries[i + 1]))

\* `entries.slice(0, end)` with end >= 0.
SliceFromStart(entries, end) ==
    SubSeq(entries, 1, IF end < Len(entries) THEN end ELSE Len(entries))

\* The Color[] of the counts: sort, slice and map.
TopColors(counts, maxCols) ==
    LET entries == SortLoop(counts, 0, <<>>)
        topKeys == SliceFromStart(entries, maxCols)
    IN  [j \in 1..Len(topKeys) |-> dequantizeColor(topKeys[j].key)]

\* The Color[] the call returns for the image in heap h.
extractDominantColors(h, image, maxCols, step) ==
    TopColors(ScanLoop(h[image.data], image.width, image.height, step,
                       0, 0, <<>>),
              maxCols)

(***************************************************************************)
(* The inputs the merge functions are applied to.                          *)
(***************************************************************************)
MaxChunks == 2      \* the longest chunk list
MaxOffset == 1      \* the largest chunk offset, in tiles
MaxGid == 4         \* the largest GID stored in a cell

Dims == {1, 2}                  \* widths and heights, in tiles
TileSizes == {16, 32}           \* tile widths and heights, in pixels
InfiniteFlags == {Absent, Some(FALSE), Some(TRUE)}

\* The sequence o with s put after its first p elements.
Insert(o, p, s) == SubSeq(o, 1, p) \o <<s>> \o SubSeq(o, p + 1, Len(o))

\* All arrays of n elements over S.
ArraysOf(S, n) == [0..(n - 1) -> S]

Tileset(firstgid, source, name, image, tilewidth, tileheight, tilecount, columns) ==
    [firstgid |-> firstgid, source |-> source, name |-> name,
     image |-> image, tilewidth |-> tilewidth, tileheight |-> tileheight,
     tilecount |-> tilecount, columns |-> columns]

DefaultTileset ==
    Tileset(1, Absent, Some("a"), Some("a.png"), Some(16), Some(16),
            Some(2), Some(2))

TileLayer(id, width, height, data) ==
    [type |-> "tilelayer", id |-> id, name |-> "ground", x |-> 0, y |-> 0,
     width |-> width, height |-> height, data |-> data]

MapObject(id, x, y, gid) == [id |-> id, x |-> x, y |-> y, gid |-> gid]

ObjectGroup(id, name, objects) ==
    [type |-> "objectgroup", id |-> id, name |-> name, objects |-> objects]

ImageLayer(id, name) ==
    [type |-> "imagelayer", id |-> id, name |-> name, image |-> "bg.png"]

GroupLayer(id, name) ==
    [type |-> "group", id |-> id, name |-> name, layers |-> <<>>]

Tmj(width, height, tilewidth, tileheight, infinite, layers, refs) ==
    [width |-> width, height |-> height, tilewidth |-> tilewidth,
     tileheight |-> tileheight, infinite |-> infinite, layers |-> layers,
     tilesets |-> refs, orientation |-> "orthogonal",
     renderorder |-> "right-down"]

MapChunk(tmj, offsetX, offsetY) ==
    [id |-> "chunk", tmj |-> tmj, offsetX |-> offsetX, offsetY |-> offsetY]

\* Chunks that differ in what the validation loop reads: the tile size and
\* the infinite flag.
ValidationChunks ==
    {MapChunk(Tmj(1, 1, tw, th, inf,
                  <<TileLayer(1, 1, 1, ArraySet(NewArrayFill0(1), 0, 1))>>,
                  <<DefaultTileset>>), 0, 0) :
        tw \in TileSizes, th \in TileSizes, inf \in InfiniteFlags}

\* A chunk whose one tile layer need not have the size of its map: every
\* pattern of empty and filled cells of every layer size.
LayerSubjects ==
    UNION {
        {MapChunk(Tmj(w, h, 16, 16, Absent,
                      <<TileLayer(1, lw, lh, data)>>,
                      <<DefaultTileset>>), 0, oy) :
            data \in ArraysOf({0, 1}, lw * lh)} :
        w \in Dims, h \in Dims, lw \in Dims, lh \in Dims,
        oy \in 0..MaxOffset}

\* A chunk without layers that only stretches the bounds.
LayerNeighbours ==
    {MapChunk(Tmj(1, 1, 16, 16, Absent, <<>>, <<DefaultTileset>>), ox, 0) :
        ox \in (-MaxOffset)..MaxOffset}

\* Tileset lists as a map declares them: the first tileset at firstgid 1,
\* a second one of another name at firstgid 3, each with or without a
\* tilecount.
GidTilesets(firstgid) ==
    {Tileset(firstgid, Absent, Some(name), Absent, Some(16), Some(16),
             tilecount, Some(2)) :
        name \in {"a", "b"}, tilecount \in {Absent, Some(2)}}

TilesetLists ==
    {<<t1>> : t1 \in GidTilesets(1)}
        \cup {tt \in GidTilesets(1) \X GidTilesets(3) :
                    tt[1].name # tt[2].name}

\* A chunk of one cell holding GID g, and chunks that only declare tilesets.
GidSubjects ==
    {MapChunk(Tmj(1, 1, 16, 16, Absent,
                  <<TileLayer(1, 1, 1, ArraySet(NewArrayFill0(1), 0, g))>>,
                  refs), 0, 0) :
        g \in 1..MaxGid, refs \in TilesetLists}

GidOthers ==
    {MapChunk(Tmj(1, 1, 16, 16, Absent, <<>>, refs), 0, 0) :
        refs \in TilesetLists}

\* Layers of the four types, the tile layers and the object groups under two
\* names, all with the id 7 as their document numbers them.
MaxLayers == 2      \* the most layers of a document

LayerNames == {"p", "q"}

StackLayers ==
    {[TileLayer(7, 1, 1, ArraySet(NewArrayFill0(1), 0, 1)) EXCEPT !.name = n] :
        n \in LayerNames}
    \cup {ObjectGroup(7, n, <<MapObject(9, 0, 0, Absent)>>) : n \in LayerNames}
    \cup {ImageLayer(7, "p"), GroupLayer(7, "p")}

\* A chunk with every list of at most MaxLayers of these layers, and chunks
\* one tile to its right with a tile layer, an object group, or an object
\* group before a tile layer.
StackSubjects ==
    UNION {
        {MapChunk(Tmj(1, 1, 16, 16, Absent, layers, <<DefaultTileset>>), 0, 0) :
            layers \in [1..n -> StackLayers]} :
        n \in 0..MaxLayers}

StackOthers ==
    {MapChunk(Tmj(1, 1, 16, 16, Absent, layers, <<DefaultTileset>>), 1, 0) :
        layers \in
            {<<TileLayer(7, 1, 1, ArraySet(NewArrayFill0(1), 0, 1))>>,
             <<ObjectGroup(7, "p", <<MapObject(9, 0, 0, Absent)>>)>>,
             <<ObjectGroup(7, "q", <<>>),
               TileLayer(7, 1, 1, ArraySet(NewArrayFill0(1), 0, 1))>>}}

\* A chunk of tiles 16 wide and 32 high whose tileset b is declared at
\* firstgid 1 and whose one object group holds every list of at most
\* MaxObjects objects: inside the map or far outside it, without a gid,
\* with a gid of the tileset or with a gid of no tileset; and chunks to
\* its far left and its right that declare tileset a and hold one object.
MaxObjects == 2     \* the most objects of an object group

SubjectObjects ==
    {MapObject(9, x, 8, gid) :
        x \in {0, 100}, gid \in {Absent, Some(1), Some(MaxGid + 1)}}

ObjectSubjects ==
    UNION {
        {MapChunk(Tmj(1, 1, 16, 32, Absent, <<ObjectGroup(7, "p", objects)>>,
                      <<Tileset(1, Absent, Some("b"), Absent, Some(16),
                                Some(32), Some(2), Some(2))>>), 0, oy) :
            objects \in [1..n -> SubjectObjects]} :
        n \in 0..MaxObjects, oy \in 0..MaxOffset}

ObjectNeighbours ==
    {MapChunk(Tmj(1, 1, 16, 32, Absent,
                  <<ObjectGroup(7, "q", <<MapObject(9, 0, 0, Some(1))>>)>>,
                  <<Tileset(1, Absent, Some("a"), Absent, Some(16),
                            Some(32), Some(2), Some(2))>>), ox, 0) :
        ox \in {-MaxOffset, 1}}

\* Chunks that differ in what computeBounds reads: the offsets and the size.
BoundsChunks ==
    {MapChunk(Tmj(w, h, 16, 16, Absent, <<>>, <<>>), ox, oy) :
        w \in Dims, h \in Dims,
        ox \in (-MaxOffset)..MaxOffset, oy \in {0, 1}}

\* Two chunks with one tileset each, over every combination of the seven
\* properties of the deduplication key being absent, empty or set.
OptionalStrings == {Absent, Some(""), Some("s")}
OptionalNumbers == {Absent, Some(2)}

DedupTilesets ==
    {Tileset(1, source, name, image, tilewidth, tileheight, tilecount,
             columns) :
        source \in OptionalStrings, name \in OptionalStrings,
        image \in OptionalStrings, tilewidth \in OptionalNumbers,
        tileheight \in OptionalNumbers, tilecount \in OptionalNumbers,
        columns \in OptionalNumbers}

(***************************************************************************)
(* The specifications: a function's inputs are drawn in the initial state  *)
(* and the function is applied once.                                       *)
(***************************************************************************)
\* The App state after construction.
InitApp ==
    /\ mapChunks = <<>>
    /\ tilesets = <<>>
    /\ output = Absent
    /\ uploads = <<>>

\* No colour function is applied.
InitNoImage ==
    /\ heap = <<>>
    /\ baseImageData = Absent
    /\ changes = <<>>
    /\ useTolerance = FALSE
    /\ toleranceSq = DefaultToleranceSq
    /\ maxColors = DefaultMaxColors
    /\ sampleStep = DefaultSampleStep
    /\ scan = ScanIdle

InitCall(cs) ==
    /\ chunks = cs
    /\ called = "none"
    /\ calls = <<>>
    /\ ret = Absent
    /\ InitApp
    /\ InitNoImage

\* Every list of at most MaxChunks chunks of S.
InitLists(S) ==
    \E n \in 0..MaxChunks : \E cs \in [1..n -> S] : InitCall(cs)

\* Every list of at most MaxChunks chunks made of chunks of Others and
\* exactly one chunk of Subjects, put at any position.
InitWithSubject(Subjects, Others) ==
    \E n \in 0..(MaxChunks - 1) : \E o \in [1..n -> Others] :
        \E s \in Subjects, p \in 0..n : InitCall(Insert(o, p, s))

\* mergeTmjMaps(chunks)
Init ==
    \/ InitLists(ValidationChunks)
    \/ InitWithSubject(LayerSubjects, LayerNeighbours)
    \/ InitWithSubject(GidSubjects, GidOthers)
    \/ InitWithSubject(StackSubjects, StackOthers)
    \/ InitWithSubject(ObjectSubjects, ObjectNeighbours)

CallMergeTmjMaps ==
    /\ called = "none"
    /\ called' = "mergeTmjMaps"
    /\ LET r == mergeTmjMaps(chunks)
       IN  ret' = r.result /\ calls' = r.calls
    /\ UNCHANGED <<chunks, appVars, colorVars>>

Next == CallMergeTmjMaps

Spec == Init /\ [][Next]_vars

\* computeBounds(chunks)
InitBounds == InitLists(BoundsChunks)

CallComputeBounds ==
    /\ called = "none"
    /\ called' = "computeBounds"
    /\ ret' = Returned(computeBounds(chunks))
    /\ calls' = <<>>
    /\ UNCHANGED <<chunks, appVars, colorVars>>

NextBounds == CallComputeBounds

SpecBounds == InitBounds /\ [][NextBounds]_vars

\* mergeTilesets(chunks)
InitTilesets ==
    \E t1 \in DedupTilesets, t2 \in DedupTilesets :
        InitCall(<<MapChunk(Tmj(1, 1, 16, 16, Absent, <<>>, <<t1>>), 0, 0),
                   MapChunk(Tmj(1, 1, 16, 16, Absent, <<>>, <<t2>>), 0, 0)>>)

CallMergeTilesets ==
    /\ called = "none"
    /\ called' = "mergeTilesets"
    /\ ret' = Returned(mergeTilesets(chunks))
    /\ calls' = <<>>
    /\ UNCHANGED <<chunks, appVars, colorVars>>

NextTilesets == CallMergeTilesets

SpecTilesets == InitTilesets /\ [][NextTilesets]_vars

(***************************************************************************)
(* The App component: its state and handlers.                              *)
(***************************************************************************)
\* String functions of the handlers, tabulated on the strings of the model:
\* the image paths "a.png", "img/A.png", "img/a.png" and "../img/a.png",
\* and names without a dot, a slash or a capital.
basename(path) ==
    CASE path = "img/A.png" -> "A.png"
      [] path = "img/a.png" -> "a.png"
      [] path = "../img/a.png" -> "a.png"
      [] OTHER -> path

toLowerCase(str) ==
    CASE str = "A.png" -> "a.png"
      [] str = "img/A.png" -> "img/a.png"
      [] OTHER -> str

\* `imgBaseRaw.replace(/\.[^.]+$/, "")`.
WithoutExtension(str) ==
    CASE str = "a.png" -> "a"
      [] str = "A.png" -> "A"
      [] str = "img/A.png" -> "img/A"
      [] str = "img/a.png" -> "img/a"
      [] str = "../img/a.png" -> "../img/a"
      [] OTHER -> str

\* `tilesets/${baseNoExt}.png`.
TilesetImagePath(baseNoExt) ==
    CASE baseNoExt = "a" -> "tilesets/a.png"
      [] baseNoExt = "A" -> "tilesets/A.png"
      [] baseNoExt = "b" -> "tilesets/b.png"
      [] baseNoExt = "tileset_0" -> "tilesets/tileset_0.png"
      [] baseNoExt = "tileset_1" -> "tilesets/tileset_1.png"
      [] OTHER -> "tilesets/_.png"

\* `tileset_${i}`.
TilesetIndexName(i) ==
    CASE i = 0 -> "tileset_0"
      [] i = 1 -> "tileset_1"
      [] OTHER -> "tileset_n"

\* `a || b` on strings: the first one that is present and not empty.
FirstTruthy(a, b) == IF a # Absent /\ a # Some("") THEN a ELSE b

\* `tilesets.find(...) ?? tilesets[i]` of handleExportZip: the position of
\* the tileset state whose image is encoded for tsRef, or Absent.
FindTilesetState(states, tsRef, imgBaseRaw, i) ==
    LET matches(t) ==
            \/ toLowerCase(t.imageFileName) = toLowerCase(imgBaseRaw)
            \/ (tsRef.name # Absent /\ tsRef.name # Some("")
                    /\ Some(t.name) = tsRef.name)
        found == {n \in 1..Len(states) : matches(states[n])}
    IN  IF found # {} THEN Some(CHOOSE n \in found : \A q \in found : n <= q)
        ELSE IF i + 1 <= Len(states) THEN Some(i + 1)
        ELSE Absent

\* The Error of imageDataToPngBlob (imageUtils.ts) without a 2D context.
NoContextMessage == "Failed to get 2D context"

\* The loop of handleExportZip over the merged tilesets: the images put in
\* the archive and the merged tilesets with their image rewritten, or the
\* Error of imageDataToPngBlob when the page cannot encode an image.
RECURSIVE ZipTilesetsLoop(_, _, _, _, _)
ZipTilesetsLoop(mergedTilesets, states, canEncode, i, files) ==
    IF i >= Len(mergedTilesets)
    THEN [error |-> Absent, tilesets |-> mergedTilesets, files |-> files]
    ELSE LET tsRef == mergedTilesets[i + 1]
             imgBaseRaw ==
                 Get(FirstTruthy(
                        Some(basename(IF Has(tsRef.image)
                                      THEN Get(tsRef.image) ELSE "")),
                        FirstTruthy(tsRef.name, Some(TilesetIndexName(i)))))
             imagePath == TilesetImagePath(WithoutExtension(imgBaseRaw))
             tsState == FindTilesetState(states, tsRef, imgBaseRaw, i)
         IN  IF Has(tsState) /\ Has(states[Get(tsState)].currentImageData)
             THEN IF canEncode
                  THEN ZipTilesetsLoop(
                        [mergedTilesets EXCEPT
                            ![i + 1].image = Some(imagePath)],
                        states, canEncode, i + 1, files \cup {imagePath})
                  ELSE [error |-> Some(Thrown(NoContextMessage)),
                        tilesets |-> mergedTilesets, files |-> files]
             ELSE ZipTilesetsLoop(mergedTilesets, states, canEncode, i + 1,
                                  files)

TmjFailureAlert == "Failed to merge TMJ maps. See console for details."
ZipFailureAlert == "Failed to export zip. See console for details."

\* What the catch block of an export handler does with a caught error.
ExportFailure(label, alertText, error) ==
    [kind |-> "failure",
     console |-> <<label, error.message>>,
     alert |-> alertText]

\* What handleExportTmj does with the chunks cs: the file it downloads or
\* the failure it reports.
exportTmjOutput(cs) ==
    LET merged == mergeTmjMaps(cs).result
    IN  IF merged.kind = "returned"
        THEN [kind |-> "download", name |-> "merged.tmj",
              files |-> {}, document |-> merged.value]
        ELSE ExportFailure("Failed to merge TMJ maps", TmjFailureAlert, merged)

\* What handleExportZip does with the chunks cs and the tileset states, in a
\* page that can or cannot encode an image.
exportZipOutput(cs, states, canEncode) ==
    LET merged == mergeTmjMaps(cs).result
    IN  IF merged.kind = "returned"
        THEN LET z == ZipTilesetsLoop(merged.value.tilesets, states,
                                      canEncode, 0, {})
             IN  IF Has(z.error)
                 THEN ExportFailure("Failed to export zip", ZipFailureAlert,
                                    Get(z.error))
                 ELSE [kind |-> "download", name |-> "merged-map.zip",
                       files |-> z.files \cup {"maps/merged.tmj"},
                       document |->
                           [merged.value EXCEPT !.tilesets = z.tilesets]]
        ELSE ExportFailure("Failed to export zip", ZipFailureAlert, merged)

\* What is left of an export in the page: the alert and the console line of
\* a failure, the name and the entries of a downloaded file.
Shown(o) ==
    IF o.kind = "download"
    THEN [kind |-> o.kind, name |-> o.name, files |-> o.files]
    ELSE o

\* The map documents a user uploads: finite ones of either tile width and an
\* infinite one.
AppDocuments ==
    {Tmj(1, 1, d[1], 16, d[2],
         <<TileLayer(1, 1, 1, ArraySet(NewArrayFill0(1), 0, 1))>>,
         <<[DefaultTileset EXCEPT !.image = Some("img/A.png")]>>) :
        d \in {<<16, Absent>>, <<32, Absent>>, <<16, Some(TRUE)>>}}

MaxTilesets == 1         \* the most tileset images loaded
MaxChunkTilesets == 2    \* the most tilesets of a document
UploadPaletteSize == 8   \* the maxColors handleTilesetImagesUpload passes

\* The offsets <<offsetX, offsetY>> a user drags a chunk to.
AppOffsets == {<<0, 0>>, <<1, 2>>}

\* createId: an identifier no loaded chunk has, or no tileset state has:
\* the one after the chunks, or after the pixel buffers, there are.
createId(loaded) == Len(loaded) + 1

\* handleTmjUpload(files): the parsed files are appended at offset (0, 0).
RECURSIVE NewChunks(_, _, _)
NewChunks(files, n, loaded) ==
    IF n > Len(files) THEN <<>>
    ELSE <<[id |-> createId(loaded), tmj |-> files[n],
            offsetX |-> 0, offsetY |-> 0]>>
            \o NewChunks(files, n + 1, Append(loaded, files[n]))

handleTmjUpload(files) ==
    /\ mapChunks' = mapChunks \o NewChunks(files, 1, mapChunks)
    /\ UNCHANGED <<tilesets, output, uploads, callVars, colorVars>>

\* handleChunkOffsetChange(id, offsetX, offsetY)
handleChunkOffsetChangeMutEveryChunk(id, offsetX, offsetY) ==
    /\ mapChunks' =
        [n \in 1..Len(mapChunks) |->
            [mapChunks[n] EXCEPT !.offsetX = offsetX, !.offsetY = offsetY]]
    /\ UNCHANGED <<tilesets, output, uploads, callVars, colorVars>>

handleChunkOffsetChange(id, offsetX, offsetY) ==
    /\ mapChunks' =
        [n \in 1..Len(mapChunks) |->
            IF mapChunks[n].id = id
            THEN [mapChunks[n] EXCEPT !.offsetX = offsetX,
                                      !.offsetY = offsetY]
            ELSE mapChunks[n]]
    /\ UNCHANGED <<tilesets, output, uploads, callVars, colorVars>>

\* `ts.image.split(/[/\\]/).pop()`, tabulated like basename.
LastSegment(path) ==
    CASE path = "img/A.png" -> "A.png"
      [] path = "img/a.png" -> "a.png"
      [] path = "../img/a.png" -> "a.png"
      [] OTHER -> path

\* findTmjTilesetForFile: the place <<chunk, tileset>> of the first tileset
\* whose image has the file's name, whatever the case, or Absent.
findTmjTilesetForFile(fileName, cs) ==
    LET base == toLowerCase(fileName)
        found == {p \in (1..Len(cs)) \X (1..MaxChunkTilesets) :
                    /\ p[2] <= Len(cs[p[1]].tmj.tilesets)
                    /\ LET ts == cs[p[1]].tmj.tilesets[p[2]]
                       IN  /\ ts.image # Absent
                           /\ ts.image # Some("")
                           /\ toLowerCase(LastSegment(Get(ts.image))) = base}
    IN  IF found = {} THEN Absent
        ELSE Some(CHOOSE p \in found :
                    \A q \in found :
                        p[1] < q[1] \/ (p[1] = q[1] /\ p[2] <= q[2]))

\* The image files a user uploads: one red pixel under a name that is or is
\* not the name of a map's tileset image.
TilesetFiles ==
    {[name |-> name, width |-> 1, height |-> 1, bytes |-> BytesOf(<<Red>>)] :
        name \in {"a.png", "x.png"}}

\* handleTilesetImagesUpload(files): each file that can be drawn becomes a
\* tileset state whose two images are the one ImageData read from it.
RECURSIVE NewStates(_, _, _, _, _)
NewStates(files, n, hasContext, h, newStates) ==
    IF n > Len(files) THEN [heap |-> h, newStates |-> newStates]
    ELSE IF ~ hasContext
    THEN NewStates(files, n + 1, hasContext, h, newStates)
    ELSE LET file == files[n]
             h2 == Append(h, file.bytes)
             imageData == [data |-> Len(h2), width |-> file.width,
                           height |-> file.height]
             palette == extractDominantColors(h2, imageData, UploadPaletteSize,
                                              DefaultSampleStep)
             tmjTilesetRef == findTmjTilesetForFile(file.name, mapChunks)
             refName ==
                 IF Has(tmjTilesetRef)
                 THEN mapChunks[Get(tmjTilesetRef)[1]]
                        .tmj.tilesets[Get(tmjTilesetRef)[2]].name
                 ELSE Absent
         IN  NewStates(files, n + 1, hasContext, h2,
                Append(newStates,
                    [id |-> createId(h),
                     name |-> IF Has(refName) THEN Get(refName) ELSE file.name,
                     tmjTilesetRef |-> tmjTilesetRef,
                     imagePath |-> file.name,
                     imageFileName |-> file.name,
                     baseImageData |-> Some(imageData),
                     currentImageData |-> Some(imageData),
                     palette |-> palette,
                     paletteChanges |->
                        [k \in 1..Len(palette) |->
                            [from |-> palette[k], to |-> palette[k]]]]))

handleTilesetImagesUpload(files, hasContext) ==
    /\ LET r == NewStates(files, 1, hasContext, heap, <<>>)
       IN  /\ tilesets' = tilesets \o r.newStates
           /\ heap' = r.heap
    /\ UNCHANGED <<mapChunks, output, uploads, callVars, colorArgVars>>

\* The chunks after an export wrote to the tilesets of the merged document:
\* a chunk tileset that is the same object as a merged tileset has the
\* merged tileset's properties.
ChunksAfterWrites(cs, origins, mergedTilesets) ==
    [n \in 1..Len(cs) |->
        [cs[n] EXCEPT !.tmj.tilesets =
            [j \in 1..Len(cs[n].tmj.tilesets) |->
                IF \E i \in 1..Len(origins) : origins[i] = Some(<<n, j>>)
                THEN mergedTilesets[
                        CHOOSE i \in 1..Len(origins) :
                            origins[i] = Some(<<n, j>>)]
                ELSE cs[n].tmj.tilesets[j]]]]

\* The chunks after an export handler produced o.
ChunksAfterExport(cs, o) ==
    IF o.kind = "download"
    THEN ChunksAfterWrites(cs, globalTilesetOrigins(cs), o.document.tilesets)
    ELSE cs

\* handleExportTmj(): nothing happens without chunks.
handleExportTmj ==
    /\ Len(mapChunks) # 0
    /\ LET o == exportTmjOutput(mapChunks)
       IN  /\ output' = Some(Shown(o))
           /\ mapChunks' = ChunksAfterExport(mapChunks, o)
    /\ UNCHANGED <<tilesets, uploads, callVars, colorVars>>

\* handleExportZip(): nothing happens without chunks.
handleExportZip ==
    /\ Len(mapChunks) # 0
    /\ \E canEncode \in BOOLEAN :
        LET o == exportZipOutput(mapChunks, tilesets, canEncode)
        IN  /\ output' = Some(Shown(o))
            /\ mapChunks' = ChunksAfterExport(mapChunks, o)
    /\ UNCHANGED <<tilesets, uploads, callVars, colorVars>>

\* resolveRelativePath (pathUtils.ts) against a file at the root of the
\* archive, where `..` has nothing to leave, tabulated like basename.
resolveRelativePath(baseFilePath, relativePath) ==
    CASE relativePath = "../img/a.png" -> "img/a.png"
      [] OTHER -> relativePath

\* `str.endsWith(".tmj")` on the names of the model.
EndsWithTmj(str) == str = "m.tmj"

\* `Object.values(zip.files).filter(...)`: the entries of the archive whose
\* name ends in .tmj, in the order of the archive.
tmjFiles(zip) ==
    SelectSeq(zip, LAMBDA f : EndsWithTmj(toLowerCase(f.name)))

\* `zip.file(resolvedImagePath) ?? Object.values(zip.files).find(...)`: the
\* position of the entry of that name or else of the first entry of that
\* base name, whatever the case, or Absent.
zipImageFile(zip, resolvedImagePath, imageBase) ==
    LET named == {n \in 1..Len(zip) : zip[n].name = resolvedImagePath}
        based == {n \in 1..Len(zip) :
                    toLowerCase(basename(zip[n].name))
                        = toLowerCase(imageBase)}
        first(S) == CHOOSE n \in S : \A q \in S : n <= q
    IN  IF named # {} THEN Some(first(named))
        ELSE IF based # {} THEN Some(first(based))
        ELSE Absent

\* existsAlready of handleZipUpload: a tileset state of the handler's
\* `tilesets` or of newTilesets has the image's base name, whatever the case.
existsAlready(closure, newTilesets, imageBase) ==
    \/ \E n \in 1..Len(closure) :
        toLowerCase(closure[n].imageFileName) = toLowerCase(imageBase)
    \/ \E n \in 1..Len(newTilesets) :
        toLowerCase(newTilesets[n].imageFileName) = toLowerCase(imageBase)

\* The loop of handleZipUpload over the tilesets of the k-th new chunk,
\* from tileset j on: st holds the heap and newTilesets. The tmjTilesetRef
\* of a new state is the place <<k, j>> of tsRef in newChunks.
RECURSIVE ZipRefsLoop(_, _, _, _, _, _, _, _)
ZipRefsLoop(zip, tmjName, refs, k, j, closure, hasContext, st) ==
    IF j > Len(refs) THEN st
    ELSE LET tsRef == refs[j]
             skip == ZipRefsLoop(zip, tmjName, refs, k, j + 1, closure,
                                 hasContext, st)
         IN  IF tsRef.image = Absent \/ tsRef.image = Some("") THEN skip
             ELSE LET resolvedImagePath ==
                          resolveRelativePath(tmjName, Get(tsRef.image))
                      imageBase == basename(resolvedImagePath)
                      found == zipImageFile(zip, resolvedImagePath, imageBase)
                  IN  IF existsAlready(closure, st.newTilesets, imageBase)
                      THEN skip
                      ELSE IF ~ Has(found) THEN skip
                      ELSE IF ~ hasContext THEN skip
                      ELSE LET img == zip[Get(found)].content
                               h2 == Append(st.heap, img.bytes)
                               imageData ==
                                   [data |-> Len(h2), width |-> img.width,
                                    height |-> img.height]
                               palette ==
                                   extractDominantColors(
                                       h2, imageData, UploadPaletteSize,
                                       DefaultSampleStep)
                               state ==
                                   [id |-> createId(st.heap),
                                    name |-> IF Has(tsRef.name)
                                             THEN Get(tsRef.name)
                                             ELSE imageBase,
                                    tmjTilesetRef |-> Some(<<k, j>>),
                                    imagePath |-> resolvedImagePath,
                                    imageFileName |-> imageBase,
                                    baseImageData |-> Some(imageData),
                                    currentImageData |-> Some(imageData),
                                    palette |-> palette,
                                    paletteChanges |->
                                        [c \in 1..Len(palette) |->
                                            [from |-> palette[c],
                                             to |-> palette[c]]]]
                           IN  ZipRefsLoop(
                                   zip, tmjName, refs, k, j + 1, closure,
                                   hasContext,
                                   [heap |-> h2,
                                    newTilesets |->
                                        Append(st.newTilesets, state)])

\* The loop of handleZipUpload over the .tmj entries of one archive, from
\* entry i on: each is parsed and pushed to newChunks, then its tilesets
\* are gone through.
RECURSIVE ZipTmjLoop(_, _, _, _, _, _)
ZipTmjLoop(zip, i, closure, hasContext, newChunks, st) ==
    IF i > Len(tmjFiles(zip)) THEN [newChunks |-> newChunks, st |-> st]
    ELSE LET tmjFile == tmjFiles(zip)[i]
             tmj == tmjFile.content
             pushed == Append(newChunks, tmj)
         IN  ZipTmjLoop(zip, i + 1, closure, hasContext, pushed,
                        ZipRefsLoop(zip, tmjFile.name, tmj.tilesets,
                                    Len(pushed), 1, closure, hasContext, st))

\* handleZipUpload(files) starts: the call holds the `tilesets` of the
\* render its handler was made in, and nothing new yet.
handleZipUploadStart(files) ==
    /\ uploads' = Append(uploads,
                         [files |-> files, closure |-> tilesets, done |-> 0,
                          newChunks |-> <<>>, newTilesets |-> <<>>])
    /\ UNCHANGED <<mapChunks, tilesets, output, callVars, colorVars>>

\* One turn of the outer loop of call p: the next archive is read. The
\* awaits of the turn touch nothing another call reads or writes.
handleZipUploadFile(p, hasContext) ==
    /\ uploads[p].done < Len(uploads[p].files)
    /\ LET u == uploads[p]
           r == ZipTmjLoop(u.files[u.done + 1], 1, u.closure, hasContext,
                           u.newChunks,
                           [heap |-> heap, newTilesets |-> u.newTilesets])
       IN  /\ heap' = r.st.heap
           /\ uploads' = [uploads EXCEPT
                            ![p].done = @ + 1,
                            ![p].newChunks = r.newChunks,
                            ![p].newTilesets = r.st.newTilesets]
    /\ UNCHANGED <<mapChunks, tilesets, output, callVars, colorArgVars>>

\* The new tileset states once their chunks are appended after `loaded`
\* chunks: tmjTilesetRef is the place of the tileset in the loaded chunks.
PlacedTilesets(newTilesets, loaded) ==
    [n \in 1..Len(newTilesets) |->
        [newTilesets[n] EXCEPT !.tmjTilesetRef =
            Some(<<loaded + Get(@)[1], Get(@)[2]>>)]]

\* The end of call p: `setMapChunks((prev) => [...prev, ...newChunks])` and
\* `setTilesets((prev) => [...prev, ...newTilesets])`, each when there is
\* something new.
handleZipUploadEnd(p) ==
    /\ uploads[p].done = Len(uploads[p].files)
    /\ LET u == uploads[p]
       IN  /\ mapChunks' =
                IF Len(u.newChunks) # 0
                THEN mapChunks \o NewChunks(u.newChunks, 1, mapChunks)
                ELSE mapChunks
           /\ tilesets' =
                IF Len(u.newTilesets) # 0
                THEN tilesets \o PlacedTilesets(u.newTilesets, Len(mapChunks))
                ELSE tilesets
    /\ uploads' = [n \in 1..(Len(uploads) - 1) |->
                    IF n < p THEN uploads[n] ELSE uploads[n + 1]]
    /\ UNCHANGED <<output, callVars, colorVars>>

\* The value parseInt gives a hexadecimal digit.
HexDigit(ch) ==
    CASE ch = "0" -> 0 [] ch = "1" -> 1 [] ch = "2" -> 2 [] ch = "3" -> 3
      [] ch = "4" -> 4 [] ch = "5" -> 5 [] ch = "6" -> 6 [] ch = "7" -> 7
      [] ch = "8" -> 8 [] ch = "9" -> 9 [] ch = "a" -> 10 [] ch = "b" -> 11
      [] ch = "c" -> 12 [] ch = "d" -> 13 [] ch = "e" -> 14 [] ch = "f" -> 15

\* hexToColor (colorTools.ts) of a string given as its characters, none of
\* them a space: three digits are doubled, six are read in pairs.
hexToColor(hex, alpha) ==
    LET h == IF Len(hex) > 0 /\ hex[1] = "#" THEN Tail(hex) ELSE hex
        pair(a, b) == (16 * HexDigit(a)) + HexDigit(b)
    IN  IF Len(h) = 3
        THEN Color(pair(h[1], h[1]), pair(h[2], h[2]), pair(h[3], h[3]), alpha)
        ELSE IF Len(h) >= 6
        THEN Color(pair(h[1], h[2]), pair(h[3], h[4]), pair(h[5], h[6]), alpha)
        ELSE Color(0, 0, 0, alpha)

\* The image handlePaletteChange recolours.
RecolourSourceMutCurrent(ts) == ts.currentImageData

RecolourSource(ts) == ts.baseImageData

\* The updater of handlePaletteChange on the tileset states from n on: a
\* state of another id, or without a base image, is kept as it is.
RECURSIVE PaletteLoop(_, _, _, _, _, _, _)
PaletteLoop(states, n, tilesetId, paletteIndex, newHex, h, out) ==
    IF n > Len(states) THEN [heap |-> h, tilesets |-> out]
    ELSE LET ts == states[n]
         IN  IF ts.id # tilesetId \/ ~ Has(ts.baseImageData)
             THEN PaletteLoop(states, n + 1, tilesetId, paletteIndex, newHex,
                              h, Append(out, ts))
             ELSE LET change == ts.paletteChanges[paletteIndex + 1]
                      cs == [ts.paletteChanges EXCEPT
                                ![paletteIndex + 1].to =
                                    hexToColor(newHex, change.to.a)]
                      r == applyColorMappingsToImageData(
                                h, Get(RecolourSource(ts)), cs, FALSE,
                                DefaultToleranceSq)
                  IN  PaletteLoop(states, n + 1, tilesetId, paletteIndex,
                                  newHex, r.heap,
                                  Append(out,
                                      [ts EXCEPT
                                        !.paletteChanges = cs,
                                        !.currentImageData = Some(r.image)]))

\* handlePaletteChange(tilesetId, paletteIndex, newHex)
handlePaletteChange(tilesetId, paletteIndex, newHex) ==
    /\ LET r == PaletteLoop(tilesets, 1, tilesetId, paletteIndex, newHex,
                            heap, <<>>)
       IN  /\ tilesets' = r.tilesets
           /\ heap' = r.heap
    /\ UNCHANGED <<mapChunks, output, uploads, callVars, colorArgVars>>

InitAppSpec == InitCall(<<>>)

NextApp ==
    \/ \E n \in 1..(MaxChunks - Len(mapChunks)) :
        \E files \in [1..n -> AppDocuments] : handleTmjUpload(files)
    \/ \E id \in 1..(Len(mapChunks) + 1) : \E offset \in AppOffsets :
        handleChunkOffsetChange(id, offset[1], offset[2])
    \/ \E n \in 1..(MaxTilesets - Len(tilesets)) :
        \E files \in [1..n -> TilesetFiles], hasContext \in BOOLEAN :
            handleTilesetImagesUpload(files, hasContext)
    \/ handleExportTmj
    \/ handleExportZip

SpecApp == InitAppSpec /\ [][NextApp]_vars

\* The archives a user uploads: a map at the root whose tilesets name the
\* image of the archive, in one or the other case or in both, and that
\* image or none.
Crimson == Color(204, 0, 0, 255)

ZipTilesets ==
    {<<[DefaultTileset EXCEPT !.image = Some("img/A.png")]>>,
     <<[DefaultTileset EXCEPT !.image = Some("../img/a.png"),
                              !.name = Absent]>>,
     <<[DefaultTileset EXCEPT !.image = Some("img/A.png")],
       [DefaultTileset EXCEPT !.image = Some("../img/a.png"),
                              !.name = Absent, !.firstgid = 3]>>}

ZipDocuments ==
    {Tmj(1, 1, 16, 16, Absent,
         <<TileLayer(1, 1, 1, ArraySet(NewArrayFill0(1), 0, 1))>>, refs) :
        refs \in ZipTilesets}

ZipImages ==
    {<<>>,
     <<[name |-> "img/A.png",
        content |-> [width |-> 2, height |-> 1,
                     bytes |-> BytesOf(<<Crimson, Blue>>)]]>>}

ZipArchives ==
    {<<[name |-> "m.tmj", content |-> doc]>> \o images :
        doc \in ZipDocuments, images \in ZipImages}

\* The archives of the calls that have not ended.
RECURSIVE PendingArchives(_)
PendingArchives(us) ==
    IF us = <<>> THEN 0 ELSE Len(Head(us).files) + PendingArchives(Tail(us))

\* A user uploads some of the archives, `most` of them in all, one upload
\* after or during another.
ZipUploads(archives, most) ==
    \/ \E n \in 1..(most - Len(mapChunks) - PendingArchives(uploads)) :
        \E files \in [1..n -> archives] : handleZipUploadStart(files)
    \/ \E p \in 1..Len(uploads), hasContext \in BOOLEAN :
        handleZipUploadFile(p, hasContext)
    \/ \E p \in 1..Len(uploads) : handleZipUploadEnd(p)

NextZip == ZipUploads(ZipArchives, MaxChunks)

SpecZip == InitAppSpec /\ [][NextZip]_vars

\* The colours a user picks in a palette: what `<input type="color">` gives.
ColorInputs ==
    {<<"#", "0", "0", "c", "c", "0", "0">>,
     <<"#", "0", "0", "0", "0", "c", "c">>}

MaxBuffers == 4     \* the most pixel buffers there are

\* The archives whose one tileset is loaded with the image of the archive.
RecolourArchives ==
    {zip \in ZipArchives :
        /\ Len(zip) = 2
        /\ Len(zip[1].content.tilesets) = 1
        /\ zip[1].content.tilesets[1].name = Absent}

\* A user uploads images and archives and edits the palettes shown: those
\* of the loaded tilesets, at the places of their changes.
PaletteEdits ==
    \E n \in 1..Len(tilesets) :
        \E i \in 0..(Len(tilesets[n].paletteChanges) - 1) :
            \E newHex \in ColorInputs :
                /\ Len(heap) < MaxBuffers
                /\ handlePaletteChange(tilesets[n].id, i, newHex)

NextRecolour ==
    \/ \E n \in 1..(MaxTilesets - Len(tilesets)) :
        \E files \in [1..n -> TilesetFiles], hasContext \in BOOLEAN :
            handleTilesetImagesUpload(files, hasContext)
    \/ ZipUploads(RecolourArchives, MaxTilesets)
    \/ PaletteEdits

SpecRecolour == InitAppSpec /\ [][NextRecolour]_vars

(***************************************************************************)
(* The colour functions applied to drawn images and changes.               *)
(***************************************************************************)
MaxPixels == 2      \* the most pixels of an image
MaxChanges == 2     \* the longest change list

PixelColors == {Red, FaintRed, ClearRed, Blue}
FromColors == {Red, ClearRed, Blue}
ToColors == {Green, Blue, FaintRed}
PaletteChanges == [from : FromColors, to : ToColors]
Tolerances == {0, DefaultToleranceSq}

\* An image of width * height pixels in buffer 1, a change list, a mode and
\* a tolerance.
InitColor ==
    /\ \E width \in 1..MaxPixels, height \in 1..MaxPixels :
        /\ width * height <= MaxPixels
        /\ \E pixels \in [1..(width * height) -> PixelColors] :
            /\ heap = <<BytesOf(pixels)>>
            /\ baseImageData =
                Some([data |-> 1, width |-> width, height |-> height])
    /\ \E n \in 0..MaxChanges : changes \in [1..n -> PaletteChanges]
    /\ useTolerance \in BOOLEAN
    /\ toleranceSq \in
        IF useTolerance THEN Tolerances ELSE {DefaultToleranceSq}
    /\ maxColors = DefaultMaxColors
    /\ sampleStep = DefaultSampleStep
    /\ scan = ScanIdle
    /\ chunks = <<>>
    /\ called = "none"
    /\ calls = <<>>
    /\ ret = Absent
    /\ InitApp

CallApplyColorMappings ==
    /\ called = "none"
    /\ called' = "applyColorMappingsToImageData"
    /\ LET r == applyColorMappingsToImageData(
                    heap, Get(baseImageData), changes, useTolerance,
                    toleranceSq)
       IN  heap' = r.heap /\ ret' = Returned(r.image)
    /\ UNCHANGED <<chunks, calls, appVars, baseImageData, changes,
                   useTolerance, toleranceSq, maxColors, sampleStep, scan>>

NextColor == CallApplyColorMappings

SpecColor == InitColor /\ [][NextColor]_vars

\* extractDominantColors(imageData, maxColors, sampleStep)
MaxArea == 4        \* the most pixels of a scanned image
MaxColors == 3      \* the largest maxColors
MaxStep == 2        \* the largest sampleStep

PalettePixels == {Red, FaintRed, ClearRed, Blue, Green}

InitPalette ==
    /\ \E width \in 1..MaxArea, height \in 1..MaxArea :
        /\ width * height <= MaxArea
        /\ \E pixels \in [1..(width * height) -> PalettePixels] :
            /\ heap = <<BytesOf(pixels)>>
            /\ baseImageData =
                Some([data |-> 1, width |-> width, height |-> height])
    /\ maxColors \in 0..MaxColors
    /\ sampleStep \in 1..MaxStep
    /\ scan = ScanIdle
    /\ changes = <<>>
    /\ useTolerance = FALSE
    /\ toleranceSq = DefaultToleranceSq
    /\ chunks = <<>>
    /\ called = "none"
    /\ calls = <<>>
    /\ ret = Absent
    /\ InitApp

CallExtractDominantColors ==
    /\ called = "none"
    /\ called' = "extractDominantColors"
    /\ ret' = Returned(extractDominantColors(heap, Get(baseImageData),
                                             maxColors, sampleStep))
    /\ UNCHANGED <<chunks, calls, appVars, colorVars>>

NextPalette == CallExtractDominantColors

SpecPalette == InitPalette /\ [][NextPalette]_vars

\* extractDominantColors(imageData, maxColors, sampleStep) in steps, for the
\* integers a caller can pass as sampleStep.
ScanPixels == {Red, ClearRed, Blue}
ScanSteps == (- MaxStep)..MaxStep

InitScan ==
    /\ \E width \in 1..MaxArea, height \in 1..MaxArea :
        /\ width * height <= MaxArea
        /\ \E pixels \in [1..(width * height) -> ScanPixels] :
            /\ heap = <<BytesOf(pixels)>>
            /\ baseImageData =
                Some([data |-> 1, width |-> width, height |-> height])
    /\ maxColors = DefaultMaxColors
    /\ sampleStep \in ScanSteps
    /\ scan = ScanIdle
    /\ changes = <<>>
    /\ useTolerance = FALSE
    /\ toleranceSq = DefaultToleranceSq
    /\ chunks = <<>>
    /\ called = "none"
    /\ calls = <<>>
    /\ ret = Absent
    /\ InitApp

\* The call: the counts are empty and both loops are at 0.
ScanCall ==
    /\ called = "none"
    /\ called' = "extractDominantColors"
    /\ scan' = ScanStart
    /\ UNCHANGED <<chunks, calls, ret, appVars, heap, baseImageData,
                   changes, useTolerance, toleranceSq, maxColors, sampleStep>>

\* One iteration of the loops.
ScanStep ==
    /\ scan.pc = "scan"
    /\ LET image == Get(baseImageData)
       IN  scan' = ScanIteration(heap[image.data], image.width, image.height,
                                 sampleStep, scan)
    /\ UNCHANGED <<callVars, appVars, heap, baseImageData, changes,
                   useTolerance, toleranceSq, maxColors, sampleStep>>

\* After the loops: the colours are returned.
ScanReturn ==
    /\ scan.pc = "sort"
    /\ scan' = [scan EXCEPT !.pc = "done",
                            !.result = Some(TopColors(scan.counts, maxColors))]
    /\ UNCHANGED <<callVars, appVars, heap, baseImageData, changes,
                   useTolerance, toleranceSq, maxColors, sampleStep>>

NextScan == ScanCall \/ ScanStep \/ ScanReturn

\* A call runs to its end unless a loop runs for ever: a step that can be
\* taken is taken.
SpecScan == InitScan /\ [][NextScan]_vars /\ WF_vars(NextScan)

(***************************************************************************)
(* Properties of computeBounds, checked under SpecBounds.                  *)
(***************************************************************************)
Indices(cs) == 1..Len(cs)

\* The least and the greatest element of a non-empty set of integers.
Least(S) == CHOOSE m \in S : \A x \in S : m <= x
Greatest(S) == CHOOSE m \in S : \A x \in S : m >= x

\* C4: for a non-empty list of chunks computeBounds returns the minimum of
\* the offsets and the maximum of offset + size, so the width and height are
\* at least those of the largest chunk and every chunk's rectangle lies
\* inside the bounds.
C4_BoundsCoverChunks ==
    (called = "computeBounds" /\ Len(chunks) > 0) =>
        LET b == ret.value
            I == Indices(chunks)
        IN  /\ ret.kind = "returned"
            /\ b.minX = Fin(Least({chunks[i].offsetX : i \in I}))
            /\ b.minY = Fin(Least({chunks[i].offsetY : i \in I}))
            /\ b.maxX = Fin(Greatest(
                    {chunks[i].offsetX + chunks[i].tmj.width : i \in I}))
            /\ b.maxY = Fin(Greatest(
                    {chunks[i].offsetY + chunks[i].tmj.height : i \in I}))
            /\ b.width = Fin(Num(b.maxX) - Num(b.minX))
            /\ b.height = Fin(Num(b.maxY) - Num(b.minY))
            /\ \A i \in I :
                /\ Num(b.width) >= chunks[i].tmj.width
                /\ Num(b.height) >= chunks[i].tmj.height
                /\ Num(b.minX) <= chunks[i].offsetX
                /\ chunks[i].offsetX + chunks[i].tmj.width <= Num(b.maxX)
                /\ Num(b.minY) <= chunks[i].offsetY
                /\ chunks[i].offsetY + chunks[i].tmj.height <= Num(b.maxY)

\* Two chunks at different offsets whose bounds are wider and taller than
\* either chunk.
C4_Witness ==
    /\ called = "computeBounds"
    /\ Len(chunks) = 2
    /\ chunks[1].offsetX > chunks[2].offsetX
    /\ chunks[1].offsetY < chunks[2].offsetY
    /\ \A i \in Indices(chunks) :
        /\ Num(ret.value.width) > chunks[i].tmj.width
        /\ Num(ret.value.height) > chunks[i].tmj.height

\* C8: computeBounds called with zero chunks fails (or returns an explicit
\* sentinel) and returns no bounds record with a width or height usable as a
\* grid size.
C8_EmptyInputFails ==
    (called = "computeBounds" /\ Len(chunks) = 0) =>
        /\ ret.kind \in {"thrown", "sentinel"}
        /\ ~ (/\ ret.kind = "returned"
              /\ \/ IsFin(ret.value.width) /\ Num(ret.value.width) >= 0
                 \/ IsFin(ret.value.height) /\ Num(ret.value.height) >= 0)

(***************************************************************************)
(* Properties of mergeTilesets, checked under SpecTilesets.                *)
(***************************************************************************)
StringKeyFields == {"source", "name", "image"}
NumberKeyFields == {"tilewidth", "tileheight", "tilecount", "columns"}

\* The two tilesets have the same seven properties, absent ones included.
SameTuple(t1, t2) ==
    \A f \in StringKeyFields \cup NumberKeyFields : t1[f] = t2[f]

\* The same, with an absent string and an empty string taken as equal.
SameIdentity(t1, t2) ==
    /\ \A f \in StringKeyFields :
        \/ t1[f] = t2[f]
        \/ {t1[f], t2[f]} \subseteq {Absent, Some("")}
    /\ \A f \in NumberKeyFields : t1[f] = t2[f]

\* C2 as stated: two chunks with one tileset each give one global tileset
\* when the tilesets agree on the seven properties and two when they differ
\* in any of them, an absent property differing from an empty string.
C2_DedupByTuple ==
    called = "mergeTilesets" =>
        Len(ret.value.globalTilesets) =
            IF SameTuple(chunks[1].tmj.tilesets[1], chunks[2].tmj.tilesets[1])
            THEN 1 ELSE 2

\* C2, amended: two chunks with one tileset each give one global tileset
\* when the tilesets agree on the seven properties, an absent and an empty
\* source, name or image counting as equal, and two otherwise.
C2_DedupByIdentity ==
    called = "mergeTilesets" =>
        Len(ret.value.globalTilesets) =
            IF SameIdentity(chunks[1].tmj.tilesets[1],
                            chunks[2].tmj.tilesets[1])
            THEN 1 ELSE 2

\* Two tilesets that differ only in the name being absent or empty are
\* registered once.
C2_Witness ==
    /\ called = "mergeTilesets"
    /\ chunks[1].tmj.tilesets[1].name = Absent
    /\ chunks[2].tmj.tilesets[1].name = Some("")
    /\ chunks[1].tmj.tilesets[1].columns = Some(2)
    /\ Len(ret.value.globalTilesets) = 1

\* The GIDs of a global tileset: tilecount of them from firstgid on.
GidRange(ts) == ts.firstgid..(ts.firstgid + TileCountOrZero(ts) - 1)

\* C19: the first global tileset has firstgid 1, firstgid strictly increases
\* along the list, each tileset starts where the one before it ends, and
\* no two tilesets share a GID.
C19_ContiguousGidSpace ==
    called = "mergeTilesets" =>
        LET g == ret.value.globalTilesets
        IN  /\ Len(g) >= 1 => g[1].firstgid = 1
            /\ \A i \in 1..(Len(g) - 1) :
                /\ g[i].firstgid < g[i + 1].firstgid
                /\ g[i + 1].firstgid = g[i].firstgid + TileCountOrZero(g[i])
            /\ \A i \in 1..Len(g), j \in 1..Len(g) :
                i # j => GidRange(g[i]) \cap GidRange(g[j]) = {}

(***************************************************************************)
(* Properties of mergeTmjMaps, checked under Spec.                         *)
(***************************************************************************)
IsInfinite(c) == c.tmj.infinite = Some(TRUE)

Mismatches(cs, i) ==
    \/ cs[i].tmj.tilewidth # cs[1].tmj.tilewidth
    \/ cs[i].tmj.tileheight # cs[1].tmj.tileheight

\* C5 as stated: a non-empty list with an infinite chunk fails with the
\* infinite-map failure and returns no document, whatever the position of
\* the infinite chunk and the tile sizes of the other chunks.
C5_InfiniteAlwaysReported ==
    (/\ called = "mergeTmjMaps"
     /\ \E i \in Indices(chunks) : IsInfinite(chunks[i])) =>
        ret.kind = "thrown" /\ ret.message = InfiniteMessage

\* C5, amended: a non-empty list with an infinite chunk fails and returns no
\* document; the failure is the infinite-map failure when no chunk up to and
\* including the first infinite one differs in tile size from the first
\* chunk, and the dimension-mismatch failure otherwise.
C5_InfiniteReportedUnlessMismatchFirst ==
    (/\ called = "mergeTmjMaps"
     /\ \E i \in Indices(chunks) : IsInfinite(chunks[i])) =>
        LET first == Least({i \in Indices(chunks) : IsInfinite(chunks[i])})
        IN  /\ ret.kind = "thrown"
            /\ calls = <<>>
            /\ ret.message =
                IF \E i \in 1..first : Mismatches(chunks, i)
                THEN MismatchMessage ELSE InfiniteMessage

\* An infinite chunk that is not the first one, after chunks of one tile
\* size, is reported as infinite.
C5_Witness ==
    /\ called = "mergeTmjMaps"
    /\ Len(chunks) >= 2
    /\ ~ IsInfinite(chunks[1])
    /\ IsInfinite(chunks[Len(chunks)])
    /\ ret.kind = "thrown"
    /\ ret.message = InfiniteMessage

\* C6 as stated: a list in which some chunk's tile size differs from the
\* first chunk's fails with the dimension-mismatch failure and returns no
\* document; bounds, tilesets and layers are not computed.
C6_MismatchAlwaysReported ==
    (/\ called = "mergeTmjMaps"
     /\ \E i \in Indices(chunks) : Mismatches(chunks, i)) =>
        /\ ret.kind = "thrown"
        /\ ret.message = MismatchMessage
        /\ calls = <<>>

\* C6, amended: such a list fails, returns no document and computes no
\* bounds, tilesets or layers; the failure is the dimension-mismatch failure
\* when no chunk before the first differing one is infinite, and the
\* infinite-map failure otherwise.
C6_MismatchReportedUnlessInfiniteFirst ==
    (/\ called = "mergeTmjMaps"
     /\ \E i \in Indices(chunks) : Mismatches(chunks, i)) =>
        LET first == Least({i \in Indices(chunks) : Mismatches(chunks, i)})
        IN  /\ ret.kind = "thrown"
            /\ calls = <<>>
            /\ ret.message =
                IF \E i \in 1..(first - 1) : IsInfinite(chunks[i])
                THEN InfiniteMessage ELSE MismatchMessage

\* A chunk that differs from the first one in tileheight only is reported
\* as a mismatch.
C6_Witness ==
    /\ called = "mergeTmjMaps"
    /\ Len(chunks) = 2
    /\ chunks[2].tmj.tilewidth = chunks[1].tmj.tilewidth
    /\ chunks[2].tmj.tileheight # chunks[1].tmj.tileheight
    /\ ret.kind = "thrown"
    /\ ret.message = MismatchMessage
    /\ calls = <<>>

\* The tile layers of the chunks as <<chunk index, layer index>>, and the
\* one the j-th merged tile layer is made of (chunk order, then layer order).
TileLayerPlaces(cs) ==
    {<<i, k>> \in (1..Len(cs)) \X (1..MaxLayers) :
        /\ k <= Len(cs[i].tmj.layers)
        /\ cs[i].tmj.layers[k].type = "tilelayer"}

PlaceBefore(p, q) == p[1] < q[1] \/ (p[1] = q[1] /\ p[2] < q[2])

PlaceOfMerged(cs, j) ==
    CHOOSE p \in TileLayerPlaces(cs) :
        Cardinality({q \in TileLayerPlaces(cs) : PlaceBefore(q, p)}) = j - 1

\* The cells of a tile layer as <<localX, localY>>.
CellsOf(layer) == (0..(layer.width - 1)) \X (0..(layer.height - 1))

GidAt(layer, cell) == layer.data[cell[2] * layer.width + cell[1]]

\* Where the merge puts a cell of a layer of chunk i: the chunk's offset from
\* the least offset of all chunks, plus the cell's place in the layer.
DestOf(cs, i, cell) ==
    <<cs[i].offsetX - Least({cs[n].offsetX : n \in Indices(cs)}) + cell[1],
      cs[i].offsetY - Least({cs[n].offsetY : n \in Indices(cs)}) + cell[2]>>

InGrid(dest, doc) ==
    /\ dest[1] \in 0..(doc.width - 1)
    /\ dest[2] \in 0..(doc.height - 1)

\* The filled cells of a source layer that land inside the merged grid.
KeptCells(cs, i, layer, doc) ==
    {cell \in CellsOf(layer) :
        GidAt(layer, cell) # 0 /\ InGrid(DestOf(cs, i, cell), doc)}

MergedTileLayers(doc) ==
    {j \in 1..Len(doc.layers) : doc.layers[j].type = "tilelayer"}

\* C1: in an accepted merge, for every filled source cell that lands inside
\* the grid, the merged GID minus the firstgid of the merged tileset that
\* owns it equals the source GID minus the firstgid of the chunk's tileset
\* that owns it, and the owning merged tileset is the one the chunk's
\* tileset was registered as.
C1_TileIdentityPreserved ==
    (called = "mergeTmjMaps" /\ ret.kind = "returned") =>
        LET doc == ret.value
        IN  \A j \in MergedTileLayers(doc) :
              LET p == PlaceOfMerged(chunks, j)
                  refs == chunks[p[1]].tmj.tilesets
                  src == chunks[p[1]].tmj.layers[p[2]]
              IN  \A cell \in KeptCells(chunks, p[1], src, doc) :
                    LET g == GidAt(src, cell)
                        dest == DestOf(chunks, p[1], cell)
                        m == doc.layers[j].data[dest[2] * doc.width + dest[1]]
                        T == findTilesetForGid(g, refs)
                        TT == findTilesetForGid(m, doc.tilesets)
                    IN  Has(T) =>
                          /\ Has(TT)
                          /\ m - doc.tilesets[Get(TT)].firstgid
                                = g - refs[Get(T)].firstgid
                          /\ Get(TT) = Least(
                                {n \in 1..Len(doc.tilesets) :
                                    SameIdentity(doc.tilesets[n],
                                                 refs[Get(T)])})

\* The number of filled cells of an array.
Filled(data) == Cardinality({i \in DOMAIN data : data[i] # 0})

\* C3: every merged tile layer has as many filled cells as its source layer
\* has filled cells that land inside the grid, each of them filled at its
\* own destination, and nothing is written outside the grid.
C3_FilledCellsConserved ==
    (called = "mergeTmjMaps" /\ ret.kind = "returned") =>
        LET doc == ret.value
        IN  \A j \in MergedTileLayers(doc) :
              LET p == PlaceOfMerged(chunks, j)
                  src == chunks[p[1]].tmj.layers[p[2]]
                  kept == KeptCells(chunks, p[1], src, doc)
                  data == doc.layers[j].data
                  index(cell) ==
                      DestOf(chunks, p[1], cell)[2] * doc.width
                          + DestOf(chunks, p[1], cell)[1]
              IN  /\ DOMAIN data = 0..(doc.width * doc.height - 1)
                  /\ Filled(data) = Cardinality(kept)
                  /\ \A cell \in kept : data[index(cell)] # 0
                  /\ \A c1, c2 \in kept : index(c1) = index(c2) => c1 = c2

\* A layer wider and taller than the merged grid: some of its filled cells
\* are kept and some are dropped.
C3_Witness ==
    /\ called = "mergeTmjMaps"
    /\ ret.kind = "returned"
    /\ \E j \in MergedTileLayers(ret.value) :
        LET p == PlaceOfMerged(chunks, j)
            src == chunks[p[1]].tmj.layers[p[2]]
        IN  /\ Filled(ret.value.layers[j].data) >= 2
            /\ Filled(src.data) > Filled(ret.value.layers[j].data)
            /\ chunks[p[1]].offsetY > 0
            /\ Len(chunks) = 2

\* The places <<chunk, layer>> of the source layers of a type, and the n-th
\* of a set of places in chunk order, then document order.
LayerPlaces(cs, type) ==
    {p \in Indices(cs) \X (1..MaxLayers) :
        /\ p[2] <= Len(cs[p[1]].tmj.layers)
        /\ cs[p[1]].tmj.layers[p[2]].type = type}

NthPlace(places, n) ==
    CHOOSE p \in places :
        Cardinality({q \in places : PlaceBefore(q, p)}) = n - 1

Merged == called = "mergeTmjMaps" /\ ret.kind = "returned"

\* C13: the i-th layer of the merged document has id i.
C13_LayerIdsSequential ==
    Merged => \A i \in 1..Len(ret.value.layers) : ret.value.layers[i].id = i

\* C14: the merged layers are one tile layer per source tile layer, in chunk
\* order then document order, each filled only where its own source lands,
\* followed by one object group per source object group in the same order,
\* and nothing else.
C14_TileLayersThenObjectGroups ==
    Merged =>
        LET doc == ret.value
            tiles == LayerPlaces(chunks, "tilelayer")
            groups == LayerPlaces(chunks, "objectgroup")
            T == Cardinality(tiles)
        IN  /\ Len(doc.layers) = T + Cardinality(groups)
            /\ \A j \in 1..T :
                LET p == NthPlace(tiles, j)
                    src == chunks[p[1]].tmj.layers[p[2]]
                    dests == {DestOf(chunks, p[1], cell) :
                                cell \in KeptCells(chunks, p[1], src, doc)}
                IN  /\ doc.layers[j].type = "tilelayer"
                    /\ doc.layers[j].name = src.name
                    /\ {i \in DOMAIN doc.layers[j].data :
                            doc.layers[j].data[i] # 0}
                        = {d[2] * doc.width + d[1] : d \in dests}
            /\ \A j \in 1..Cardinality(groups) :
                LET p == NthPlace(groups, j)
                    src == chunks[p[1]].tmj.layers[p[2]]
                IN  /\ doc.layers[T + j].type = "objectgroup"
                    /\ doc.layers[T + j].name = src.name
                    /\ Len(doc.layers[T + j].objects) = Len(src.objects)

\* Two chunks: an object group named q before a tile layer, then an image
\* or group layer next to a tile layer named p; the merged document has
\* the two tile layers and then the object group.
C14_Witness ==
    /\ Merged
    /\ Len(chunks) = 2
    /\ Len(chunks[1].tmj.layers) = 2
    /\ chunks[1].tmj.layers[1].type = "objectgroup"
    /\ chunks[1].tmj.layers[2].type = "tilelayer"
    /\ Len(chunks[2].tmj.layers) = 2
    /\ chunks[2].tmj.layers[1].type \in {"imagelayer", "group"}
    /\ chunks[2].tmj.layers[2].type = "tilelayer"
    /\ chunks[2].tmj.layers[2].name = "p"
    /\ Len(ret.value.layers) = 3
    /\ ret.value.layers[2].name = "p"
    /\ ret.value.layers[3].name = "q"

\* What a chunk's remap makes of a GID: its entry, or the GID itself.
RemappedGid(cs, i, g) ==
    LET remap == mergeTilesets(cs).gidRemaps[i]
    IN  IF g \in DOMAIN remap THEN remap[g] ELSE g

\* C17: every merged tile layer is at (0, 0), has the size of the bounds and
\* that many cells; cell (gx, gy) holds the remapped GID of the source cell
\* (gx - (offsetX - minX), gy - (offsetY - minY)) when the source layer has
\* that cell and it is not 0, and 0 otherwise.
C17_TilePlacement ==
    Merged =>
        LET doc == ret.value
            bounds == computeBounds(chunks)
            width == Num(bounds.width)
            height == Num(bounds.height)
        IN  \A j \in MergedTileLayers(doc) :
              LET p == PlaceOfMerged(chunks, j)
                  src == chunks[p[1]].tmj.layers[p[2]]
                  shiftX == chunks[p[1]].offsetX - Num(bounds.minX)
                  shiftY == chunks[p[1]].offsetY - Num(bounds.minY)
                  layer == doc.layers[j]
              IN  /\ layer.x = 0
                  /\ layer.y = 0
                  /\ layer.width = width
                  /\ layer.height = height
                  /\ DOMAIN layer.data = 0..(width * height - 1)
                  /\ \A gx \in 0..(width - 1), gy \in 0..(height - 1) :
                        LET cell == <<gx - shiftX, gy - shiftY>>
                        IN  layer.data[gy * width + gx] =
                              IF cell \in CellsOf(src) /\ GidAt(src, cell) # 0
                              THEN RemappedGid(chunks, p[1], GidAt(src, cell))
                              ELSE 0

\* A merge of two chunks with a cell whose GID the remap changed, or with
\* a cell whose GID has no entry in a remap that has entries, and is kept.
C17_Witness ==
    /\ Merged
    /\ Len(chunks) = 2
    /\ \E j \in MergedTileLayers(ret.value) :
        LET p == PlaceOfMerged(chunks, j)
            g == GidAt(chunks[p[1]].tmj.layers[p[2]], <<0, 0>>)
            remap == mergeTilesets(chunks).gidRemaps[p[1]]
        IN  /\ g # 0
            /\ \/ g \in DOMAIN remap /\ remap[g] # g
                                     /\ ret.value.layers[j].data[0] = remap[g]
               \/ g \notin DOMAIN remap /\ DOMAIN remap # {}
                                        /\ ret.value.layers[j].data[0] = g

\* The objects of the groups emitted before the group at place p.
ObjectsBefore(cs, p) ==
    LET earlier == {q \in LayerPlaces(cs, "objectgroup") : PlaceBefore(q, p)}
        count[S \in SUBSET earlier] ==
            IF S = {} THEN 0
            ELSE LET q == CHOOSE q \in S : TRUE
                 IN  Len(cs[q[1]].tmj.layers[q[2]].objects) + count[S \ {q}]
    IN  count[earlier]

\* C18: every source object group is emitted with as many objects in the
\* same order; each object is shifted by the chunk's offset from the least
\* offset times the tile size, has its gid remapped like a cell's (or none),
\* and has the next id of a count over all objects that starts at 1.
C18_ObjectsShiftedAndNumbered ==
    Merged =>
        LET doc == ret.value
            groups == LayerPlaces(chunks, "objectgroup")
            T == Cardinality(LayerPlaces(chunks, "tilelayer"))
            minX == Least({chunks[n].offsetX : n \in Indices(chunks)})
            minY == Least({chunks[n].offsetY : n \in Indices(chunks)})
        IN  \A j \in 1..Cardinality(groups) :
              LET p == NthPlace(groups, j)
                  src == chunks[p[1]].tmj.layers[p[2]]
                  out == doc.layers[T + j]
              IN  /\ Len(out.objects) = Len(src.objects)
                  /\ \A n \in 1..Len(src.objects) :
                        LET obj == src.objects[n]
                            new == out.objects[n]
                        IN  /\ new.x = obj.x + (chunks[p[1]].offsetX - minX)
                                                * chunks[1].tmj.tilewidth
                            /\ new.y = obj.y + (chunks[p[1]].offsetY - minY)
                                                * chunks[1].tmj.tileheight
                            /\ new.gid =
                                IF Has(obj.gid)
                                THEN Some(RemappedGid(chunks, p[1],
                                                      Get(obj.gid)))
                                ELSE Absent
                            /\ new.id = ObjectsBefore(chunks, p) + n

\* A group emitted second, of a chunk below and to the right of the least
\* offsets, with an object far outside the grid and an object whose gid
\* the remap changed.
C18_Witness ==
    /\ Merged
    /\ Len(chunks) = 2
    /\ chunks[1].offsetX < 0
    /\ chunks[2].offsetY > 0
    /\ Len(ret.value.layers) = 2
    /\ Len(ret.value.layers[2].objects) = 2
    /\ ret.value.layers[2].objects[1].x = 116
    /\ ret.value.layers[2].objects[1].y = 40
    /\ ret.value.layers[2].objects[1].id = 2
    /\ ret.value.layers[2].objects[2].gid = Some(3)
    /\ chunks[2].tmj.layers[1].objects[2].gid = Some(1)
    /\ ret.value.layers[2].objects[2].id = 3

(***************************************************************************)
(* Properties of the export handlers, checked under SpecApp.               *)
(***************************************************************************)
\* C7: when an export fails, what the user is shown tells the cause: no
\* chunk list that fails for another reason is reported with the same alert.
C7_AlertTellsCause ==
    (Has(output) /\ Get(output).kind = "failure") =>
        \A n \in 1..2 : \A others \in [1..n -> ValidationChunks] :
            \A o \in {exportTmjOutput(others),
                      exportZipOutput(others, tilesets, TRUE)} :
                (o.kind = "failure"
                    /\ o.console[2] # Get(output).console[2])
                    => o.alert # Get(output).alert

(***************************************************************************)
(* Properties of applyColorMappingsToImageData, checked under SpecColor.   *)
(***************************************************************************)
Applied == called = "applyColorMappingsToImageData"

\* C9: the call leaves the bytes of the base image as they were and returns
\* an image in another buffer, of the same width, height and pixel count.
C9_BaseImageNotMutated ==
    [][(~ Applied /\ Applied') =>
        LET base == Get(baseImageData)
            out == ret'.value
        IN  /\ heap'[base.data] = heap[base.data]
            /\ baseImageData' = baseImageData
            /\ out.data # base.data
            /\ out.width = base.width
            /\ out.height = base.height
            /\ PixelCount(heap'[out.data]) = PixelCount(heap[base.data])
            /\ PixelCount(heap'[out.data]) = out.width * out.height]_vars

\* A call that recoloured a pixel: the result differs from the base.
C9_Witness ==
    /\ Applied
    /\ heap[ret.value.data] # heap[Get(baseImageData).data]
    /\ PixelCount(heap[ret.value.data]) = 2

\* C10: a pixel of alpha 0 is the same in the result, in either mode; in
\* exact mode so is a pixel whose four channels equal no change's `from`.
C10_UnmatchedPixelsKept ==
    Applied =>
        LET base == heap[Get(baseImageData).data]
            out == heap[ret.value.data]
        IN  \A n \in 0..(PixelCount(base) - 1) :
              LET p == PixelAt(base, n)
              IN  (\/ p.a = 0
                   \/ (/\ ~ useTolerance
                       /\ \A j \in 1..Len(changes) : changes[j].from # p))
                      => PixelAt(out, n) = p

\* A transparent pixel that equals a `from` colour is kept next to a pixel
\* that is recoloured.
C10_Witness ==
    /\ Applied
    /\ \E j \in 1..Len(changes) : changes[j].from = ClearRed
    /\ LET base == heap[Get(baseImageData).data]
           out == heap[ret.value.data]
       IN  /\ PixelCount(base) = 2
           /\ PixelAt(base, 0) = ClearRed
           /\ PixelAt(out, 0) = ClearRed
           /\ PixelAt(out, 1) # PixelAt(base, 1)

\* The `to` colours of a change list that are none of its `from` colours.
NoToIsAFrom(cs) ==
    \A j \in 1..Len(cs), k \in 1..Len(cs) : cs[j].to # cs[k].from

\* C11: in exact mode, with a change list none of whose `to` colours is one
\* of its `from` colours, applying the changes to the result of the call
\* returns an image with the same bytes, width and height as that result.
C11_ExactModeIdempotent ==
    (Applied /\ ~ useTolerance /\ NoToIsAFrom(changes)) =>
        LET once == ret.value
            twice == applyColorMappingsToImageData(heap, once, changes, FALSE,
                                                   toleranceSq)
        IN  /\ twice.heap[twice.image.data] = heap[once.data]
            /\ twice.image.width = once.width
            /\ twice.image.height = once.height

\* An exact call with two changes, one to a colour that differs from a
\* `from` colour of the list in alpha only, which recoloured a pixel.
C11_Witness ==
    /\ Applied
    /\ ~ useTolerance
    /\ NoToIsAFrom(changes)
    /\ Len(changes) = 2
    /\ changes[1].to = FaintRed
    /\ changes[2].from = Red
    /\ heap[ret.value.data] # heap[Get(baseImageData).data]

(***************************************************************************)
(* Properties of extractDominantColors, checked under SpecPalette.         *)
(***************************************************************************)
Extracted == called = "extractDominantColors"

\* The pixels the stepped scan visits, as <<x, y>>, and the place of a pixel
\* in the row-major order.
Sampled ==
    LET image == Get(baseImageData)
    IN  {pos \in (0..(image.width - 1)) \X (0..(image.height - 1)) :
            pos[1] % sampleStep = 0 /\ pos[2] % sampleStep = 0}

ScanIndex(pos) == pos[2] * Get(baseImageData).width + pos[1]

SampledPixel(pos) == PixelAt(heap[Get(baseImageData).data], ScanIndex(pos))

\* The bucket of a colour: each channel cut to its 4 high bits.
BucketOf(c) == <<c.r \div 16, c.g \div 16, c.b \div 16, c.a \div 16>>

\* The sampled pixels that are not fully transparent, by bucket.
InBucket(b) ==
    {pos \in Sampled : SampledPixel(pos).a # 0 /\ BucketOf(SampledPixel(pos)) = b}

Buckets ==
    {BucketOf(SampledPixel(pos)) : pos \in {q \in Sampled : SampledPixel(q).a # 0}}

FirstMet(b) == Least({ScanIndex(pos) : pos \in InBucket(b)})

\* Bucket b1 ranks before bucket b2.
RanksBefore(b1, b2) ==
    \/ Cardinality(InBucket(b1)) > Cardinality(InBucket(b2))
    \/ /\ Cardinality(InBucket(b1)) = Cardinality(InBucket(b2))
       /\ FirstMet(b1) < FirstMet(b2)

\* The returned colours are the first min(maxColors, number of buckets)
\* buckets in rank order, each as the colour whose channels repeat the
\* bucket's 4 bits.
TopBucketsInOrder(out) ==
    /\ Len(out) <= maxColors
    /\ Len(out) = IF maxColors < Cardinality(Buckets)
                  THEN maxColors ELSE Cardinality(Buckets)
    /\ \A i \in 1..Len(out) :
        /\ BucketOf(out[i]) \in Buckets
        /\ out[i] = Color(17 * BucketOf(out[i])[1], 17 * BucketOf(out[i])[2],
                          17 * BucketOf(out[i])[3], 17 * BucketOf(out[i])[4])
    /\ \A i \in 1..Len(out), j \in 1..Len(out) :
        i < j => RanksBefore(BucketOf(out[i]), BucketOf(out[j]))
    /\ \A b \in Buckets :
        (\A i \in 1..Len(out) : BucketOf(out[i]) # b)
            => \A i \in 1..Len(out) : RanksBefore(BucketOf(out[i]), b)

\* Every sampled pixel is the same colour of alpha 255.
OneOpaqueColour ==
    \E c \in {SampledPixel(pos) : pos \in Sampled} :
        c.a = 255 /\ \A pos \in Sampled : SampledPixel(pos) = c

\* C12 as stated: the call returns at most maxColors colours, one per bucket,
\* in rank order (count, then first met in the scan), and exactly one colour
\* for an image whose sampled pixels are all one opaque colour.
C12_TopBucketsAndOneColour ==
    Extracted =>
        /\ TopBucketsInOrder(ret.value)
        /\ OneOpaqueColour => Len(ret.value) = 1

\* C12 amended: the same, with exactly one colour for one opaque colour
\* when maxColors is at least 1.
C12_TopBucketsAndOneColourIfAsked ==
    Extracted =>
        /\ TopBucketsInOrder(ret.value)
        /\ (OneOpaqueColour /\ maxColors >= 1) => Len(ret.value) = 1

\* A stepped scan that met two buckets once each, the later bucket of the
\* two before a pixel the scan skipped, and returned both.
C12_Witness ==
    /\ Extracted
    /\ sampleStep = 2
    /\ Cardinality(Sampled) = 2
    /\ Cardinality(Buckets) = 2
    /\ Len(ret.value) = 2
    /\ ret.value[1] # ret.value[2]

\* C15: an export, of a map file or of an archive, leaves every loaded chunk
\* as it was: its offsets, its tilesets with their firstgid and image, its
\* layers with their data and objects.
C15_ExportsKeepChunks ==
    [][mapChunks' # mapChunks => ~ (handleExportTmj \/ handleExportZip)]_vars

\* An archive was exported whose merged tileset had its image rewritten to
\* the path of the encoded image, and the chunks' tilesets still name the
\* image they were loaded with.
C15_Witness ==
    /\ output # Absent
    /\ Get(output).kind = "download"
    /\ Get(output).name = "merged-map.zip"
    /\ "tilesets/A.png" \in Get(output).files
    /\ Len(mapChunks) = 2
    /\ \A n \in 1..2 : mapChunks[n].tmj.tilesets[1].image = Some("img/A.png")

\* C16: handleChunkOffsetChange(id, x, y) gives the chunk of that id the
\* offsets (x, y) and changes nothing else, and nothing at all when no
\* chunk has that id; handleTmjUpload appends the uploaded documents at
\* offset (0, 0); no step changes the id or the document of a loaded chunk.
C16_ChunksChangeOnlyOffsets ==
    [][/\ \A id \in 1..(Len(mapChunks) + 1) :
            \A x \in {0, 1}, y \in {0, 2} :
                handleChunkOffsetChange(id, x, y) =>
                    /\ Len(mapChunks') = Len(mapChunks)
                    /\ \A n \in 1..Len(mapChunks) :
                        IF mapChunks[n].id = id
                        THEN mapChunks'[n] =
                                [id |-> id, tmj |-> mapChunks[n].tmj,
                                 offsetX |-> x, offsetY |-> y]
                        ELSE mapChunks'[n] = mapChunks[n]
                    /\ (\A n \in 1..Len(mapChunks) : mapChunks[n].id # id)
                            => mapChunks' = mapChunks
       /\ \A k \in {Len(mapChunks') - Len(mapChunks)} \cap (1..MaxChunks) :
          \A files \in [1..k -> AppDocuments] :
            handleTmjUpload(files) =>
                /\ Len(mapChunks') = Len(mapChunks) + k
                /\ \A n \in 1..k :
                    /\ mapChunks'[Len(mapChunks) + n].tmj = files[n]
                    /\ mapChunks'[Len(mapChunks) + n].offsetX = 0
                    /\ mapChunks'[Len(mapChunks) + n].offsetY = 0
       /\ Len(mapChunks') >= Len(mapChunks)
       /\ \A n \in 1..Len(mapChunks) :
            /\ mapChunks'[n].id = mapChunks[n].id
            /\ mapChunks'[n].tmj = mapChunks[n].tmj
      ]_vars

\* Two chunks of different documents, the second one moved to (1, 2) and
\* the first one still where it was uploaded.
C16_Witness ==
    /\ Len(mapChunks) = 2
    /\ mapChunks[1].tmj # mapChunks[2].tmj
    /\ mapChunks[1].offsetX = 0
    /\ mapChunks[1].offsetY = 0
    /\ mapChunks[2].offsetX = 1
    /\ mapChunks[2].offsetY = 2
    /\ mapChunks[2].tmj \in AppDocuments

\* C20: in tolerance mode, a pixel that is not fully transparent becomes the
\* `to` colour of the earliest change whose `from` colour is at the least
\* squared distance from it when that distance is at most toleranceSq, and
\* is kept otherwise; with no changes every pixel is kept.
C20_NearestWithinTolerance ==
    (Applied /\ useTolerance) =>
        LET base == heap[Get(baseImageData).data]
            out == heap[ret.value.data]
        IN  \A n \in 0..(PixelCount(base) - 1) :
              LET p == PixelAt(base, n)
                  dists == {colorDistanceSq(p, changes[j].from) :
                                j \in 1..Len(changes)}
              IN  /\ (p.a # 0 /\ Len(changes) > 0 /\ Least(dists) <= toleranceSq)
                        => PixelAt(out, n) =
                             changes[Least({j \in 1..Len(changes) :
                                 colorDistanceSq(p, changes[j].from)
                                     = Least(dists)})].to
                  /\ (p.a # 0 /\ Len(changes) > 0 /\ Least(dists) > toleranceSq)
                        => PixelAt(out, n) = p
                  /\ Len(changes) = 0 => PixelAt(out, n) = p

\* Two changes from the same colour to different colours, and a pixel near
\* that colour which became the first change's `to`, next to a pixel too
\* far from it.
C20_Witness ==
    /\ Applied
    /\ useTolerance
    /\ toleranceSq = DefaultToleranceSq
    /\ Len(changes) = 2
    /\ changes[1].from = Red
    /\ changes[2].from = Red
    /\ changes[1].to # changes[2].to
    /\ LET base == heap[Get(baseImageData).data]
           out == heap[ret.value.data]
       IN  /\ PixelCount(base) = 2
           /\ PixelAt(base, 0) = FaintRed
           /\ PixelAt(out, 0) = changes[1].to
           /\ PixelAt(base, 1) = Blue
           /\ PixelAt(out, 1) = Blue

(***************************************************************************)
(* C21: extractDominantColors returns, whatever the image and the integer  *)
(* sampleStep: every call reaches the end of its scan and returns.         *)
(***************************************************************************)
C21_ScanAlwaysReturns == <>(scan.pc = "done")

(***************************************************************************)
(* C23: uploads of archives, one during another or not, never load an      *)
(* image twice: no two tileset states have the same imageFileName,         *)
(* whatever the case of its letters.                                       *)
(***************************************************************************)
C23_NoImageLoadedTwice ==
    \A m, n \in 1..Len(tilesets) :
        m # n =>
            toLowerCase(tilesets[m].imageFileName)
                # toLowerCase(tilesets[n].imageFileName)

(***************************************************************************)
(* C22: recolouring starts from the original raster.                       *)
(***************************************************************************)
\* The raster of the file a tileset state was loaded from: the uploaded
\* image of that path, or else the image of the archive.
DecodedAtUpload(ts) ==
    IF \E f \in TilesetFiles : f.name = ts.imagePath
    THEN LET f == CHOOSE g \in TilesetFiles : g.name = ts.imagePath
         IN  [width |-> f.width, height |-> f.height, bytes |-> f.bytes]
    ELSE (CHOOSE images \in ZipImages : images # <<>>)[1].content

\* The raster of an image of heap h.
Raster(h, image) ==
    [width |-> image.width, height |-> image.height, bytes |-> h[image.data]]

\* The raster applyColorMappingsToImageData makes of the base image of ts
\* with the palette changes of ts, in exact mode.
Recoloured(h, ts) ==
    LET r == applyColorMappingsToImageData(
                h, Get(ts.baseImageData), ts.paletteChanges, FALSE,
                DefaultToleranceSq)
    IN  Raster(r.heap, r.image)

DerivedFromOriginal(h, states) ==
    \A n \in 1..Len(states) :
        /\ Has(states[n].baseImageData)
        /\ Raster(h, Get(states[n].baseImageData)) = DecodedAtUpload(states[n])
        /\ Has(states[n].currentImageData)
        /\ Raster(h, Get(states[n].currentImageData)) = Recoloured(h, states[n])

\* C22: after every step of uploads and palette edits, the base image of
\* each tileset state is the raster decoded at its upload and its current
\* image is that raster recoloured in exact mode with its palette changes;
\* and handlePaletteChange(id, i, hex) changes, in the state of that id,
\* the palette changes and the current image only, and in the palette
\* changes only the `to` of change i, whose alpha it keeps, and changes no
\* other state and no image of another state. (No tileset state is loaded
\* at first, and a step that leaves the states and the heap as they are
\* leaves the images as they are.)
C22_RecolouredFromOriginal ==
    [][/\ (tilesets' # tilesets \/ heap' # heap)
            => DerivedFromOriginal(heap', tilesets')
       /\ \A n \in IF tilesets' # tilesets THEN 1..Len(tilesets) ELSE {} :
            \A i \in 0..(Len(tilesets[n].paletteChanges) - 1) :
              \A newHex \in ColorInputs :
                handlePaletteChange(tilesets[n].id, i, newHex) =>
                    /\ Len(tilesets') = Len(tilesets)
                    /\ \A m \in 1..Len(tilesets) :
                        LET old == tilesets[m]
                            new == tilesets'[m]
                        IN  IF m # n
                            THEN /\ new = old
                                 /\ Raster(heap', Get(new.currentImageData))
                                      = Raster(heap, Get(old.currentImageData))
                            ELSE /\ [new EXCEPT
                                        !.paletteChanges = old.paletteChanges,
                                        !.currentImageData =
                                            old.currentImageData] = old
                                 /\ Len(new.paletteChanges)
                                      = Len(old.paletteChanges)
                                 /\ \A k \in 1..Len(old.paletteChanges) :
                                      IF k # i + 1
                                      THEN new.paletteChanges[k]
                                            = old.paletteChanges[k]
                                      ELSE /\ new.paletteChanges[k].from
                                                = old.paletteChanges[k].from
                                           /\ new.paletteChanges[k].to.a
                                                = old.paletteChanges[k].to.a
      ]_vars

\* Two tileset states, one of them recoloured for the second time at
\* least (the image of an earlier recolouring is still in the heap) and
\* showing other pixels than its base image, the other as it was loaded.
C22_Witness ==
    /\ Len(tilesets) >= 2
    /\ \E n \in 1..Len(tilesets) :
        /\ tilesets[n].paletteChanges[1].to # tilesets[n].paletteChanges[1].from
        /\ heap[Get(tilesets[n].currentImageData).data]
            # heap[Get(tilesets[n].baseImageData).data]
        /\ Raster(heap, Get(tilesets[n].currentImageData))
            = Recoloured(heap, tilesets[n])
        /\ \E m \in 1..Len(tilesets) :
            /\ m # n
            /\ tilesets[m].currentImageData = tilesets[m].baseImageData
    /\ \E b \in 1..Len(heap) :
        \A n \in 1..Len(tilesets) :
            /\ Get(tilesets[n].currentImageData).data # b
            /\ Get(tilesets[n].baseImageData).data # b

====
